---- MODULE Spec2Model ----
(***************************************************************************)
(* A model of the query-optimiser's batch layer (src/src/batch_analyser.py)*)
(* and of its database gateway (src/src/db_connector.py).                  *)
(*                                                                         *)
(*   Spec      one run of BatchAnalyser.analyse_queries: the executor's    *)
(*             bounded pool, process_query with its lock-protected         *)
(*             counter and progress callback, then _aggregate_results.     *)
(*   SpecAgg   _aggregate_results as a pure function of a results list.    *)
(*   SpecPlan  calls of DatabaseConnector.get_explain_plan.                *)
(***************************************************************************)
EXTENDS Integers, Sequences, FiniteSets, TLC

VARIABLES
    mode,            \* which entry point this behaviour exercises
    queries,         \* analyse_queries: the submitted list of SQL strings
    max_workers,     \* BatchAnalyser.max_workers
    callback,        \* the progress_callback argument: "none", "ok", "raises"
    qpc,             \* per submitted query: where its process_query call is
    qres,            \* per submitted query: what analyse_single_query returned
    qtmp,            \* per submitted query: the value of `completed` it loaded
    completed,       \* the nonlocal counter of analyse_queries
    lock,            \* self._lock: 0 when free, else the holder's index
    progress_calls,  \* the (completed, total) pairs the callback received
    results,         \* the results list of analyse_queries
    report,          \* the BatchAnalysisReport, NoReport until built
    gquery,          \* get_explain_plan: the query argument, as pieces of text
    ganalyze,        \* get_explain_plan: the analyze argument
    gpc,             \* get_explain_plan: where the call is
    goutcome,        \* get_explain_plan: how the last call ended
    conn_log,        \* what the current call did with the pool and its connection
    pool_out,        \* connections checked out of the pool
    gcalls,          \* calls of get_explain_plan made so far
    pool_max,        \* DatabaseConnector.pool_max: the pool's maxconn
    wpc,             \* per worker: where its current gateway operation is
    wops,            \* per worker: the gateway operations its query still makes
    wlog,            \* per worker: what the current operation did with the pool
    wexit,           \* per worker: how the current with-block was left
    wlost,           \* per worker: an operation failed on an exhausted pool
    arg,             \* the argument of the function under study
    ret              \* its return value, NotCalled before the call

gatewayVars == <<gquery, ganalyze, gpc, goutcome, conn_log, pool_out, gcalls>>
poolVars == <<pool_max, wpc, wops, wlog, wexit, wlost>>
callVars == <<arg, ret>>

(***************************************************************************)
(* Bounds of the model.                                                    *)
(***************************************************************************)
MaxQueries == 3
MaxWorkers == 2
MaxResults == 3

(***************************************************************************)
(* Python values.                                                          *)
(***************************************************************************)
\* Optional[str]: None is the empty tuple, a string s is <<s>>.
None == <<>>
Some(s) == <<s>>
\* `if result.error:` -- None and the empty string are both falsy.
Truthy(e) == e # None /\ e[1] # ""

NoReport == [built |-> FALSE]

RECURSIVE JoinStr(_, _)
\* sep.join(strs)
JoinStr(strs, sep) ==
    IF strs = <<>> THEN ""
    ELSE IF Len(strs) = 1 THEN strs[1]
    ELSE strs[1] \o sep \o JoinStr(Tail(strs), sep)

\* Python's string order on the column names the model uses.
ColumnOrder ==
    <<"account_id", "created_at", "email", "id", "profile_id", "status", "total", "user_id">>
StrRank(s) == CHOOSE k \in 1..Len(ColumnOrder) : ColumnOrder[k] = s

RECURSIVE InsertSorted(_, _)
InsertSorted(sorted, c) ==
    IF sorted = <<>> THEN <<c>>
    ELSE IF StrRank(Head(sorted)) <= StrRank(c)
         THEN <<Head(sorted)>> \o InsertSorted(Tail(sorted), c)
         ELSE <<c>> \o sorted

RECURSIVE SortedStrs(_)
\* sorted(columns)
SortedStrs(cols) ==
    IF cols = <<>> THEN <<>>
    ELSE InsertSorted(SortedStrs(SubSeq(cols, 1, Len(cols) - 1)), cols[Len(cols)])

(***************************************************************************)
(* IndexRecommendation (src/src/recommender.py).                           *)
(***************************************************************************)
\* reason, expected_improvement_pct and warning start at the dataclass defaults
IndexRecommendation(t, cols, pred, prio, cur, est) ==
    [table_name |-> t, columns |-> cols, partial_index_predicate |-> pred,
     include_columns |-> <<>>, priority |-> prio,
     current_cost |-> cur, estimated_cost |-> est,
     reason |-> "", expected_improvement_pct |-> 0, warning |-> ""]

get_index_name(r) ==
    "idx_" \o r.table_name \o "_" \o JoinStr(r.columns, "_")
        \o (IF r.partial_index_predicate # "" THEN "_partial" ELSE "")
        \o (IF r.include_columns # <<>> THEN "_covering" ELSE "")

\* index_type is always btree in the batch path
get_ddl(r) ==
    "CREATE INDEX " \o get_index_name(r) \o " ON " \o r.table_name
        \o " (" \o JoinStr(r.columns, ", ") \o ")"
        \o (IF r.include_columns # <<>>
            THEN " INCLUDE (" \o JoinStr(r.include_columns, ", ") \o ")" ELSE "")
        \o (IF r.partial_index_predicate # ""
            THEN " WHERE " \o r.partial_index_predicate ELSE "")
        \o ";"

\* the dict written into top_recommendations and AnalysisResult.to_dict
RecDict(r) ==
    [table |-> r.table_name, columns |-> r.columns, priority |-> r.priority,
     current_cost |-> r.current_cost, estimated_cost |-> r.estimated_cost,
     ddl |-> get_ddl(r)]

\* the dict written into recommendations_by_table
TableRecDict(r) == [columns |-> r.columns, ddl |-> get_ddl(r)]

(***************************************************************************)
(* The collaborators of analyse_single_query, as seen from the batch       *)
(* layer: what the gateway's plan request and the synthesizer do for each  *)
(* query of the model's workload.  The queries hold no $N placeholder.     *)
(***************************************************************************)
Q1 == "SELECT * FROM user WHERE profile_id > 7"
Q2 == "SELECT * FROM user_profile WHERE id > 7"
Q3 == "SELECT * FROM user WHERE status = 'a' AND profile_id > 7"
Q4 == "SELECT * FROM user WHERE profile_id > 9"
Q5 == "SELECT * FROM missing"
Q6 == "SELECT * FROM orders WHERE total > 5"
Q7 == "SELECT * FROM user WHERE email > 'a' AND id > 7"
Q8 == "SELECT * FROM user WHERE id > 7 AND email > 'a'"
Q9 == "SELECT 1"
Q10 == "SELECT * FROM users JOIN orders ON users.id = orders.user_id WHERE orders.total > 5"

Raises(msg) == [raises |-> TRUE, msg |-> msg]
Returns(v) == [raises |-> FALSE, value |-> v]

\* the dict get_explain_plan returns; has_plan: explain_plan holds a 'Plan' key
Plan(cost, scans) == [empty |-> FALSE, has_plan |-> TRUE, total_cost |-> cost, scans |-> scans]
MalformedPlan == [empty |-> FALSE, has_plan |-> FALSE, total_cost |-> 0, scans |-> <<>>]
EmptyPlan == [empty |-> TRUE, has_plan |-> FALSE, total_cost |-> 0, scans |-> <<>>]

\* self.db_connector.get_explain_plan(query), for the workload
PlanRequest(q) ==
    CASE q = Q1 -> Returns(Plan(10, <<"user">>))
      [] q = Q2 -> Returns(Plan(10, <<"user_profile">>))
      [] q = Q3 -> Returns(Plan(14, <<"user">>))
      [] q = Q4 -> Returns(Plan(18, <<"user">>))
      [] q = Q5 -> Raises("Connection failed")
      [] q = Q6 -> Returns(Plan(20, <<"orders">>))
      [] q = Q7 -> Returns(Plan(8, <<"user">>))
      [] q = Q8 -> Returns(Plan(12, <<"user">>))
      [] q = Q9 -> Returns(MalformedPlan)
      [] q = Q10 -> Returns(Plan(30, <<"orders">>))
      [] OTHER -> Returns(EmptyPlan)

\* self.recommender.analyse_query(query, explain_plan), for the workload;
\* on Q6 it raises an exception whose str() is empty (MemoryError(), a bare assert)
Synthesis(q) ==
    CASE q = Q1 -> Returns(<<IndexRecommendation("user", <<"profile_id">>, "", 5, 10, 5)>>)
      [] q = Q2 -> Returns(<<IndexRecommendation("user_profile", <<"id">>, "", 5, 10, 5)>>)
      [] q = Q3 -> Returns(<<IndexRecommendation("user", <<"profile_id">>, "status = 'a'", 7, 14, 7)>>)
      [] q = Q4 -> Returns(<<IndexRecommendation("user", <<"profile_id">>, "", 9, 18, 9)>>)
      [] q = Q6 -> Raises("")
      [] q = Q7 -> Returns(<<IndexRecommendation("user", <<"email", "id">>, "", 4, 8, 4)>>)
      [] q = Q8 -> Returns(<<IndexRecommendation("user", <<"id", "email">>, "", 6, 12, 6)>>)
      [] q = Q10 -> Returns(<<IndexRecommendation("orders", <<"total">>, "", 6, 30, 24),
                              IndexRecommendation("orders", <<"user_id">>, "", 2, 0, 0)>>)
      [] OTHER -> Returns(<<>>)

(***************************************************************************)
(* BatchAnalyser.analyse_single_query                                      *)
(***************************************************************************)
AnalysisResult(q, err) ==
    [query |-> q, total_cost |-> 0, seq_scans |-> <<>>, recommendations |-> <<>>,
     error |-> err]

\* `except Exception as e: result.error = str(e)`
CaughtError(result, msg) == [result EXCEPT !.error = Some(msg)]

analyse_single_query(q) ==
    LET result == AnalysisResult(q, None)
        explain_plan == PlanRequest(q)
    IN  IF explain_plan.raises THEN CaughtError(result, explain_plan.msg)
        ELSE IF explain_plan.value.empty
             THEN [result EXCEPT !.error = Some("Empty EXPLAIN plan returned")]
        ELSE IF ~explain_plan.value.has_plan
             \* extract_execution_metrics: plan['Plan'] raises KeyError('Plan')
             THEN CaughtError(result, "'Plan'")
        ELSE LET withMetrics == [result EXCEPT !.total_cost = explain_plan.value.total_cost]
                 withScans == [withMetrics EXCEPT !.seq_scans = explain_plan.value.scans]
                 recommendations == Synthesis(q)
             IN  IF recommendations.raises THEN CaughtError(withScans, recommendations.msg)
                 ELSE [withScans EXCEPT !.recommendations = recommendations.value]

(***************************************************************************)
(* BatchAnalyser._aggregate_results                                        *)
(***************************************************************************)
TruncateAt == 200
TopN == 20

\* result.query[:200] + '...' if len(result.query) > 200 else result.query;
\* every query of the workload is shorter than 200 characters
TruncatedQuery(q) == IF Len(q) > TruncateAt THEN "..." ELSE q

\* f"{rec.table_name}_{','.join(sorted(rec.columns))}"
SignatureKey(rec) == rec.table_name \o "_" \o JoinStr(SortedStrs(rec.columns), ",")

\* A Python dict: a sequence of [key, value] entries in insertion order.
DictHas(d, k) == \E i \in 1..Len(d) : d[i].key = k
DictGet(d, k) == d[CHOOSE i \in 1..Len(d) : d[i].key = k].value
\* d[k] = v: a new key is appended, an existing key keeps its position
DictSet(d, k, v) ==
    IF DictHas(d, k)
    THEN [i \in 1..Len(d) |-> IF d[i].key = k THEN [key |-> k, value |-> v] ELSE d[i]]
    ELSE Append(d, [key |-> k, value |-> v])
DictValues(d) == [i \in 1..Len(d) |-> d[i].value]
DictKeys(d) == {d[i].key : i \in 1..Len(d)}

RECURSIVE InsertByPriority(_, _)
InsertByPriority(sorted, r) ==
    IF sorted = <<>> THEN <<r>>
    ELSE IF Head(sorted).priority >= r.priority
         THEN <<Head(sorted)>> \o InsertByPriority(Tail(sorted), r)
         ELSE <<r>> \o sorted

RECURSIVE SortByPriority(_)
\* list.sort(key=lambda r: r.priority, reverse=True): stable, highest first
SortByPriority(recs) ==
    IF recs = <<>> THEN <<>>
    ELSE InsertByPriority(SortByPriority(SubSeq(recs, 1, Len(recs) - 1)), recs[Len(recs)])

\* `rec.priority > all_recommendations[key].priority`
Outranks(rec, kept) == rec.priority > kept.priority

\* the body of `for rec in result.recommendations`
AddRecommendation(acc, rec) ==
    LET key == SignatureKey(rec)
        all == acc.all_recommendations
        byTable == acc.recommendations_by_table
        tableList == IF DictHas(byTable, rec.table_name)
                     THEN DictGet(byTable, rec.table_name) ELSE <<>>
    IN  [acc EXCEPT
            !.seq_scans_with_recommendations = @ + 1,
            !.total_current_cost = @ + rec.current_cost,
            !.total_estimated_cost = @ + rec.estimated_cost,
            !.all_recommendations =
                IF ~DictHas(all, key) \/ Outranks(rec, DictGet(all, key))
                THEN DictSet(all, key, rec) ELSE all,
            !.recommendations_by_table =
                DictSet(byTable, rec.table_name, Append(tableList, rec))]

RECURSIVE AddRecommendations(_, _)
AddRecommendations(acc, recs) ==
    IF recs = <<>> THEN acc
    ELSE AddRecommendations(AddRecommendation(acc, Head(recs)), Tail(recs))

\* AnalysisResult.to_dict
ResultDict(result) ==
    [query |-> result.query, total_cost |-> result.total_cost,
     seq_scans |-> result.seq_scans,
     recommendations |-> [i \in 1..Len(result.recommendations) |->
                              RecDict(result.recommendations[i])],
     error |-> result.error]

\* `if result.error:` -- the result is counted as failed
IsFailed(result) == Truthy(result.error)

\* AddResult without the `continue` of its failure branch
AddResult_WithoutContinue(acc, result) ==
    LET counted == IF IsFailed(result)
                   THEN [acc EXCEPT
                           !.failed_queries = @ + 1,
                           !.failed_query_details =
                               Append(@, [query |-> TruncatedQuery(result.query),
                                          error |-> result.error[1]])]
                   ELSE acc
    IN  AddRecommendations(
            [counted EXCEPT
                !.analysed_queries = @ + 1,
                !.total_seq_scans = @ + Len(result.seq_scans),
                !.analysis_results = Append(@, ResultDict(result))],
            result.recommendations)

\* the body of `for result in results`
AddResult(acc, result) ==
    IF IsFailed(result)
    THEN [acc EXCEPT
            !.failed_queries = @ + 1,
            !.failed_query_details =
                Append(@, [query |-> TruncatedQuery(result.query),
                           error |-> result.error[1]])]
    ELSE AddRecommendations(
            [acc EXCEPT
                !.analysed_queries = @ + 1,
                !.total_seq_scans = @ + Len(result.seq_scans),
                !.analysis_results = Append(@, ResultDict(result))],
            result.recommendations)

RECURSIVE AddResults(_, _)
AddResults(acc, rs) ==
    IF rs = <<>> THEN acc ELSE AddResults(AddResult(acc, Head(rs)), Tail(rs))

RECURSIVE UniqueByColumns(_, _)
\* the `seen` loop: the first recommendation of each sorted column tuple
UniqueByColumns(recs, seen) ==
    IF recs = <<>> THEN <<>>
    ELSE LET key == SortedStrs(Head(recs).columns)
         IN  IF key \in seen THEN UniqueByColumns(Tail(recs), seen)
             ELSE <<TableRecDict(Head(recs))>>
                      \o UniqueByColumns(Tail(recs), seen \cup {key})

FirstN(s, n) == SubSeq(s, 1, IF Len(s) < n THEN Len(s) ELSE n)

_aggregate_results(rs) ==
    LET acc == AddResults(
                [total_queries |-> Len(rs), analysed_queries |-> 0, failed_queries |-> 0,
                 total_seq_scans |-> 0, seq_scans_with_recommendations |-> 0,
                 total_current_cost |-> 0, total_estimated_cost |-> 0,
                 analysis_results |-> <<>>, failed_query_details |-> <<>>,
                 all_recommendations |-> <<>>, recommendations_by_table |-> <<>>], rs)
        unique_recs == SortByPriority(DictValues(acc.all_recommendations))
        byTable == acc.recommendations_by_table
    IN  [built |-> TRUE,
         total_queries |-> acc.total_queries,
         analysed_queries |-> acc.analysed_queries,
         failed_queries |-> acc.failed_queries,
         total_seq_scans |-> acc.total_seq_scans,
         seq_scans_with_recommendations |-> acc.seq_scans_with_recommendations,
         unique_recommendations |-> Len(unique_recs),
         \* list(set(...)): the order is arbitrary, so a set
         tables_affected |-> {unique_recs[i].table_name : i \in 1..Len(unique_recs)},
         total_current_cost |-> acc.total_current_cost,
         total_estimated_cost |-> acc.total_estimated_cost,
         top_recommendations |-> [i \in 1..Len(FirstN(unique_recs, TopN)) |->
                                      RecDict(unique_recs[i])],
         recommendations_by_table |->
             [t \in DictKeys(byTable) |->
                 UniqueByColumns(SortByPriority(DictGet(byTable, t)), {})],
         analysis_results |-> acc.analysis_results,
         failed_query_details |-> acc.failed_query_details]

\* the local unique_recs of _aggregate_results
UniqueRecs(rs) ==
    SortByPriority(DictValues(
        AddResults([total_queries |-> Len(rs), analysed_queries |-> 0, failed_queries |-> 0,
                    total_seq_scans |-> 0, seq_scans_with_recommendations |-> 0,
                    total_current_cost |-> 0, total_estimated_cost |-> 0,
                    analysis_results |-> <<>>, failed_query_details |-> <<>>,
                    all_recommendations |-> <<>>, recommendations_by_table |-> <<>>],
                   rs).all_recommendations))

(***************************************************************************)
(* BatchAnalyser.analyse_queries                                           *)
(***************************************************************************)
\* the workload of the batch runs
BatchQueries == {Q1, Q2, Q5, Q6}

SeqsUpTo(S, n) == UNION {[1..k -> S] : k \in 0..n}

\* str(e) of the exception a raising progress callback throws
CallbackError == "callback failed"

Indices == 1..Len(queries)

\* queries a pool thread is working on: process_query entered, not yet returned
Running == {i \in Indices : qpc[i] \in {"plan", "lock", "incr", "callback"}}

\* queries inside analyse_single_query: their plan request is outstanding
InFlight == {i \in Indices : qpc[i] = "plan"}

\* a pool that starts one thread too many
WorkerAvailable_OffByOne == Cardinality(Running) <= max_workers

\* ThreadPoolExecutor(max_workers=self.max_workers): a queued call starts only
\* on one of at most max_workers threads
WorkerAvailable == Cardinality(Running) < max_workers

\* the counter updated without waiting for the lock
LockFree_NeverWaits == TRUE

\* `with self._lock:` blocks until the lock is free
LockFree == lock = 0

\* the value of ret before the function under study is called
NotCalled == [called |-> FALSE]

\* no worker of the pool model runs, no function is under study
PoolIdle ==
    /\ pool_max = 1
    /\ wpc = <<>>
    /\ wops = <<>>
    /\ wlog = <<>>
    /\ wexit = <<>>
    /\ wlost = <<>>
CallIdle == arg = <<>> /\ ret = NotCalled

\* no call of the gateway is under way
GatewayIdle ==
    /\ gquery = <<>>
    /\ ganalyze = FALSE
    /\ gpc = "idle"
    /\ goutcome = "none"
    /\ conn_log = <<>>
    /\ pool_out = 0
    /\ gcalls = 0

InitBatch ==
    /\ mode = "batch"
    /\ GatewayIdle
    /\ PoolIdle
    /\ CallIdle
    /\ queries \in SeqsUpTo(BatchQueries, MaxQueries)
    /\ max_workers \in 1..MaxWorkers
    /\ callback \in {"none", "ok", "raises"}
    /\ qpc = [i \in 1..Len(queries) |-> "queued"]
    /\ qres = [i \in 1..Len(queries) |-> AnalysisResult(queries[i], None)]
    /\ qtmp = [i \in 1..Len(queries) |-> 0]
    /\ completed = 0
    /\ lock = 0
    /\ progress_calls = <<>>
    /\ results = <<>>
    /\ report = NoReport

\* executor.submit(process_query, q): the calls start in submission order
CanStart(i) ==
    /\ mode = "batch"
    /\ qpc[i] = "queued"
    /\ \A j \in 1..(i - 1) : qpc[j] # "queued"
    /\ WorkerAvailable

StartQuery(i) ==
    /\ CanStart(i)
    /\ qpc' = [qpc EXCEPT ![i] = "plan"]
    /\ UNCHANGED <<mode, queries, max_workers, callback, qres, qtmp, completed,
                   lock, progress_calls, results, report>>
    /\ UNCHANGED <<gatewayVars, poolVars, callVars>>

\* result = self.analyse_single_query(query, stats)
AnalyseSingleQuery(i) ==
    /\ qpc[i] = "plan"
    /\ qres' = [qres EXCEPT ![i] = analyse_single_query(queries[i])]
    /\ qpc' = [qpc EXCEPT ![i] = "lock"]
    /\ UNCHANGED <<mode, queries, max_workers, callback, qtmp, completed,
                   lock, progress_calls, results, report>>
    /\ UNCHANGED <<gatewayVars, poolVars, callVars>>

\* `with self._lock:` entered, and the load of `completed += 1`
CanAcquire(i) == qpc[i] = "lock" /\ LockFree

AcquireLock(i) ==
    /\ CanAcquire(i)
    /\ lock' = i
    /\ qtmp' = [qtmp EXCEPT ![i] = completed]
    /\ qpc' = [qpc EXCEPT ![i] = "incr"]
    /\ UNCHANGED <<mode, queries, max_workers, callback, qres, completed,
                   progress_calls, results, report>>
    /\ UNCHANGED <<gatewayVars, poolVars, callVars>>

\* the store of `completed += 1`, then progress_callback(completed, len(queries))
IncrementAndNotify(i) ==
    /\ qpc[i] = "incr"
    /\ completed' = qtmp[i] + 1
    /\ progress_calls' = IF callback = "none" THEN progress_calls
                         ELSE Append(progress_calls,
                                     [by |-> i, completed |-> qtmp[i] + 1,
                                      total |-> Len(queries)])
    /\ qpc' = [qpc EXCEPT ![i] = "callback"]
    /\ UNCHANGED <<mode, queries, max_workers, callback, qres, qtmp,
                   lock, results, report>>
    /\ UNCHANGED <<gatewayVars, poolVars, callVars>>

\* what as_completed's loop appends for a finished future
Collected(i) ==
    IF callback = "raises"
    THEN AnalysisResult(queries[i], Some(CallbackError))
    ELSE qres[i]

\* the callback ends, the lock is released, process_query returns (or the
\* callback's exception leaves it) and the main thread collects the future
ReleaseAndReturn(i) ==
    /\ qpc[i] = "callback"
    /\ lock' = 0
    /\ results' = Append(results, Collected(i))
    /\ qpc' = [qpc EXCEPT ![i] = "done"]
    /\ UNCHANGED <<mode, queries, max_workers, callback, qres, qtmp, completed,
                   progress_calls, report>>
    /\ UNCHANGED <<gatewayVars, poolVars, callVars>>

\* report = self._aggregate_results(results), once the executor has shut down
CanAggregate ==
    /\ mode = "batch"
    /\ report = NoReport
    /\ \A i \in Indices : qpc[i] = "done"

Aggregate ==
    /\ CanAggregate
    /\ report' = _aggregate_results(results)
    /\ UNCHANGED <<mode, queries, max_workers, callback, qpc, qres, qtmp, completed,
                   lock, progress_calls, results>>
    /\ UNCHANGED <<gatewayVars, poolVars, callVars>>

batchVars == <<queries, max_workers, callback, qpc, qres, qtmp, completed,
               lock, progress_calls, results, report>>

vars == <<mode, batchVars, gatewayVars, poolVars, callVars>>

Next ==
    \/ \E i \in Indices : StartQuery(i)
    \/ \E i \in Indices : AnalyseSingleQuery(i)
    \/ \E i \in Indices : AcquireLock(i)
    \/ \E i \in Indices : IncrementAndNotify(i)
    \/ \E i \in Indices : ReleaseAndReturn(i)
    \/ Aggregate

Spec == InitBatch /\ [][Next]_vars

(***************************************************************************)
(* Properties of analyse_queries (checked under Spec).                     *)
(***************************************************************************)
Done == report # NoReport

\* whether a collaborator raises while query q is analysed, and with what message
RaisesFor(q) ==
    \/ PlanRequest(q).raises
    \/ (~PlanRequest(q).value.empty /\ ~PlanRequest(q).value.has_plan)
    \/ (~PlanRequest(q).value.empty /\ Synthesis(q).raises)
MessageFor(q) ==
    IF PlanRequest(q).raises THEN PlanRequest(q).msg
    ELSE IF ~PlanRequest(q).value.has_plan THEN "'Plan'"
    ELSE Synthesis(q).msg

RECURSIVE WithoutRaising(_)
\* the results of the queries for which nothing raises
WithoutRaising(rs) ==
    IF rs = <<>> THEN <<>>
    ELSE (IF RaisesFor(Head(rs).query) THEN <<>> ELSE <<Head(rs)>>)
             \o WithoutRaising(Tail(rs))

\* C1: a query for which the plan request, metrics extraction, scan detection
\* or synthesis raises gets a result whose error is the exception's message and
\* which has no recommendations; the report counts it in failed_queries with
\* exactly one failed_query_details entry; and what the report says about the
\* other queries is what it would say had the failing ones not been submitted.
C1_FailuresCapturedAndCounted ==
    (Done /\ callback # "raises") =>
        /\ \A i \in Indices : RaisesFor(queries[i]) =>
              /\ qres[i].error = Some(MessageFor(queries[i]))
              /\ qres[i].recommendations = <<>>
        /\ report.failed_queries = Cardinality({i \in Indices : RaisesFor(queries[i])})
        /\ \A q \in BatchQueries : RaisesFor(q) =>
              Cardinality({k \in 1..Len(report.failed_query_details) :
                              report.failed_query_details[k].query = q})
                  = Cardinality({i \in Indices : queries[i] = q})
        /\ LET without == _aggregate_results(WithoutRaising(results))
           IN  /\ report.analysis_results = without.analysis_results
               /\ report.analysed_queries = without.analysed_queries
               /\ report.top_recommendations = without.top_recommendations
               /\ report.recommendations_by_table = without.recommendations_by_table

\* how far a run has got: every step of analyse_queries moves one query on,
\* or builds the report
PcRank(pc) ==
    CASE pc = "queued" -> 0 [] pc = "plan" -> 1 [] pc = "lock" -> 2
      [] pc = "incr" -> 3 [] pc = "callback" -> 4 [] OTHER -> 5
RECURSIVE SumRanks(_)
SumRanks(i) == IF i = 0 THEN 0 ELSE PcRank(qpc[i]) + SumRanks(i - 1)
Progress == SumRanks(Len(queries)) + (IF Done THEN 1 ELSE 0)

\* some action of Next can be taken: each action is its guard and assignments
SomeStepEnabled ==
    \/ CanAggregate
    \/ \E i \in Indices :
          \/ CanStart(i)
          \/ CanAcquire(i)
          \/ qpc[i] \in {"plan", "incr", "callback"}

\* C2: analyse_queries terminates with a report (no run can stop before the
\* report is built, and every step advances the run, so none goes on for ever),
\* and in the report total_queries = n, analysed_queries + failed_queries = n
\* and len(failed_query_details) = failed_queries.
C2_EveryQueryAccountedOnce ==
    /\ [](Done \/ SomeStepEnabled)
    /\ [][Progress' > Progress]_vars
    /\ [](Done =>
            /\ report.total_queries = Len(queries)
            /\ report.analysed_queries + report.failed_queries = Len(queries)
            /\ Len(report.failed_query_details) = report.failed_queries)

\* a finished batch of three queries with a duplicate, a failure and a success
C2_Witness ==
    /\ Done
    /\ Len(queries) >= 3
    /\ \E i, j \in Indices : i # j /\ queries[i] = queries[j]
    /\ report.failed_queries >= 1
    /\ report.analysed_queries >= 1

\* C3: at every moment at most max_workers queries are inside
\* analyse_single_query, so at most max_workers plan requests are outstanding.
C3_AtMostWInFlight == Cardinality(InFlight) <= max_workers

\* the pool is saturated: W >= 2 plan requests outstanding and a query waiting
C3_Witness ==
    /\ max_workers >= 2
    /\ Cardinality(InFlight) = max_workers
    /\ \E i \in Indices : qpc[i] = "queued"

\* C4: with a progress callback, the callback runs in at most one worker at a
\* time, every invocation has total = n, the k-th invocation has completed = k
\* (strictly increasing, no lost or duplicated increment), no query invokes it
\* twice, and when the batch is done it has been invoked exactly n times.
C4_ProgressCallbackSequential ==
    callback # "none" =>
        /\ Cardinality({i \in Indices : qpc[i] = "callback"}) <= 1
        /\ \A k \in 1..Len(progress_calls) :
              /\ progress_calls[k].completed = k
              /\ progress_calls[k].total = Len(queries)
        /\ \A k, l \in 1..Len(progress_calls) :
              k # l => progress_calls[k].by # progress_calls[l].by
        /\ Done => Len(progress_calls) = Len(queries)

\* two workers were running, a failed query is among the three that reported
C4_Witness ==
    /\ Done
    /\ callback = "ok"
    /\ max_workers >= 2
    /\ Len(progress_calls) >= 3
    /\ report.failed_queries >= 1
    /\ \E k \in 1..(Len(progress_calls) - 1) :
          progress_calls[k].by > progress_calls[k + 1].by

\* the results list when the queries complete in the order of submission
\* (what a run with max_workers = 1 collects)
SubmissionOrderResults == [i \in Indices |-> analyse_single_query(queries[i])]

\* C7: the report is a function of the query list and the catalog state: a run
\* produces the report that the run completing in submission order produces,
\* whatever the order in which its workers complete.
C7_ReportIndependentOfCompletionOrder ==
    (Done /\ callback # "raises") =>
        report = _aggregate_results(SubmissionOrderResults)

(***************************************************************************)
(* _aggregate_results on its own: every list of up to MaxResults results,  *)
(* in every order, of the queries of the wider workload.                   *)
(***************************************************************************)
AggQueries == {Q1, Q2, Q3, Q4, Q5, Q6, Q7, Q8, Q9, Q10}
ResultPool == {analyse_single_query(q) : q \in AggQueries}

InitAgg ==
    /\ mode = "aggregate"
    /\ GatewayIdle
    /\ PoolIdle
    /\ CallIdle
    /\ results \in SeqsUpTo(ResultPool, MaxResults)
    /\ queries = <<>>
    /\ max_workers = 1
    /\ callback = "none"
    /\ qpc = <<>>
    /\ qres = <<>>
    /\ qtmp = <<>>
    /\ completed = 0
    /\ lock = 0
    /\ progress_calls = <<>>
    /\ report = NoReport

AggregateResults ==
    /\ mode = "aggregate"
    /\ report = NoReport
    /\ report' = _aggregate_results(results)
    /\ UNCHANGED <<mode, queries, max_workers, callback, qpc, qres, qtmp, completed,
                   lock, progress_calls, results>>
    /\ UNCHANGED <<gatewayVars, poolVars, callVars>>

NextAgg == AggregateResults

SpecAgg == InitAgg /\ [][NextAgg]_vars

\* the proposals of the results the aggregation treats as successful, each
\* tagged with where it came from
Contributions ==
    UNION {{<<i, j>> : j \in 1..Len(results[i].recommendations)} :
              i \in {k \in 1..Len(results) : ~IsFailed(results[k])}}
Contributed(c) == results[c[1]].recommendations[c[2]]
Proposals == {Contributed(c) : c \in Contributions}

SetOf(seq) == {seq[i] : i \in 1..Len(seq)}

\* (relation, sorted(columns), partial_predicate, tuple(include_columns))
IdentityKey(r) ==
    <<r.table_name, SortedStrs(r.columns), r.partial_index_predicate, r.include_columns>>

\* the entries of the report's top_recommendations that render a proposal with key k
EntriesWithKey(k) ==
    {e \in 1..Len(report.top_recommendations) :
        \E p \in Proposals :
            RecDict(p) = report.top_recommendations[e] /\ IdentityKey(p) = k}

\* C5: the report's unique proposal list holds exactly one proposal for each
\* distinct identity key (relation, sorted(columns), partial_predicate,
\* include_columns) among the proposals of the successful results; proposals
\* whose keys differ are never merged into one.
C5_OneProposalPerIdentityKey ==
    Done =>
        /\ \A p \in Proposals : Cardinality(EntriesWithKey(IdentityKey(p))) = 1
        /\ report.unique_recommendations = Cardinality({IdentityKey(p) : p \in Proposals})
        /\ Len(report.top_recommendations) = Cardinality({IdentityKey(p) : p \in Proposals})

\* the entries of top_recommendations for relation t and column set cs
EntriesFor(t, cs) ==
    {e \in 1..Len(report.top_recommendations) :
        /\ report.top_recommendations[e].table = t
        /\ SetOf(report.top_recommendations[e].columns) = cs}

SameIndex(a, b) == a.table_name = b.table_name /\ SetOf(a.columns) = SetOf(b.columns)

\* C6: when several queries contribute a proposal for the same relation and
\* column set, the report lists exactly one proposal for it, and its priority
\* is the maximum priority over those contributions, in whatever order the
\* results arrive.
C6_OneProposalWithMaxPriority ==
    Done =>
        \A c \in Contributions :
            LET p == Contributed(c)
                same == {d \in Contributions : SameIndex(Contributed(d), p)}
            IN  Cardinality(same) >= 2 =>
                    /\ Cardinality(EntriesFor(p.table_name, SetOf(p.columns))) = 1
                    /\ \A e \in EntriesFor(p.table_name, SetOf(p.columns)) :
                          /\ \A d \in same :
                                report.top_recommendations[e].priority
                                    >= Contributed(d).priority
                          /\ \E d \in same :
                                report.top_recommendations[e].priority
                                    = Contributed(d).priority

(***************************************************************************)
(* DatabaseConnector (src/src/db_connector.py).  A query is a sequence of  *)
(* pieces of text whose concatenation is the SQL string; the pieces are    *)
(* cut at the places the gateway's prefix tests look at.                   *)
(***************************************************************************)
MaxCalls == 2

GatewayQueries ==
    { <<>>,
      <<"  ">>,
      <<"SELECT", " 1">>,
      <<" ", "select", " 1", "\n">>,
      <<"WITH", " c AS (", "SELECT", " 1) ", "SELECT", " * FROM c">>,
      <<"WITH", " d AS (", "DELETE", " FROM t RETURNING *) ", "SELECT", " * FROM d">>,
      <<"INSERT", " INTO t VALUES (1)">>,
      <<"update", " t SET a = 1">>,
      <<"DELETE", " FROM t">>,
      <<"CREATE", " INDEX i ON t (a)">>,
      <<"ALTER", " TABLE t ADD b int">>,
      <<"drop", " TABLE t">>,
      <<"TRUNCATE", " t">>,
      <<"MERGE", " INTO t USING s ON t.a = s.a WHEN MATCHED THEN ", "DELETE">>,
      <<"CALL", " purge()">>,
      <<"/* x */", " ", "DELETE", " FROM t">> }

IsSpace(piece) == piece \in {" ", "  ", "\n"}

RECURSIVE LStrip(_)
LStrip(q) == IF q # <<>> /\ IsSpace(Head(q)) THEN LStrip(Tail(q)) ELSE q
RECURSIVE RStrip(_)
RStrip(q) ==
    IF q # <<>> /\ IsSpace(q[Len(q)]) THEN RStrip(SubSeq(q, 1, Len(q) - 1)) ELSE q
\* str.strip()
Strip(q) == RStrip(LStrip(q))

\* str.upper() on the pieces of the workload
UpperPiece(piece) ==
    CASE piece = "select" -> "SELECT"
      [] piece = "update" -> "UPDATE"
      [] piece = "drop" -> "DROP"
      [] piece = " c AS (" -> " C AS ("
      [] piece = " d AS (" -> " D AS ("
      [] piece = " * FROM c" -> " * FROM C"
      [] piece = " * FROM d" -> " * FROM D"
      [] piece = " FROM t RETURNING *) " -> " FROM T RETURNING *) "
      [] piece = " INTO t VALUES (1)" -> " INTO T VALUES (1)"
      [] piece = " t SET a = 1" -> " T SET A = 1"
      [] piece = " FROM t" -> " FROM T"
      [] piece = " INDEX i ON t (a)" -> " INDEX I ON T (A)"
      [] piece = " TABLE t ADD b int" -> " TABLE T ADD B INT"
      [] piece = " TABLE t" -> " TABLE T"
      [] piece = " t" -> " T"
      [] piece = " INTO t USING s ON t.a = s.a WHEN MATCHED THEN " ->
                 " INTO T USING S ON T.A = S.A WHEN MATCHED THEN "
      [] piece = " purge()" -> " PURGE()"
      [] piece = "/* x */" -> "/* X */"
      [] OTHER -> piece
Upper(q) == [i \in 1..Len(q) |-> UpperPiece(q[i])]

\* str.startswith(prefix): some leading pieces concatenate to the prefix
StartsWith(q, prefix) == \E k \in 1..Len(q) : JoinStr(SubSeq(q, 1, k), "") = prefix

_detect_query_type(query) ==
    LET query_upper == Upper(Strip(query))
    IN  IF StartsWith(query_upper, "SELECT") \/ StartsWith(query_upper, "WITH")
        THEN "SELECT"
        ELSE IF StartsWith(query_upper, "INSERT") THEN "INSERT"
        ELSE IF StartsWith(query_upper, "UPDATE") THEN "UPDATE"
        ELSE IF StartsWith(query_upper, "DELETE") THEN "DELETE"
        ELSE IF \E cmd \in {"CREATE", "ALTER", "DROP", "TRUNCATE"} :
                    StartsWith(query_upper, cmd)
        THEN "DDL"
        ELSE "UNKNOWN"

\* `if not query or not query.strip()`
IsEmptyQuery(query) == query = <<>> \/ Strip(query) = <<>>

\* the refusal with 'DDL' left out of its list
RefusesAnalyze_ForgetsDDL(analyze, query_type) ==
    analyze /\ query_type \in {"INSERT", "UPDATE", "DELETE"}

\* `if analyze and query_type in ['INSERT', 'UPDATE', 'DELETE', 'DDL']`
RefusesAnalyze(analyze, query_type) ==
    analyze /\ query_type \in {"INSERT", "UPDATE", "DELETE", "DDL"}

\* an entry of conn_log
Event(op, analyze) == [op |-> op, analyze |-> analyze]

InitPlan ==
    /\ mode = "plan"
    /\ GatewayIdle
    /\ PoolIdle
    /\ CallIdle
    /\ queries = <<>>
    /\ max_workers = 1
    /\ callback = "none"
    /\ qpc = <<>>
    /\ qres = <<>>
    /\ qtmp = <<>>
    /\ completed = 0
    /\ lock = 0
    /\ progress_calls = <<>>
    /\ results = <<>>
    /\ report = NoReport

\* get_explain_plan(query, analyze) is called: the checks made before any I/O
CallExplainPlan(query, analyze) ==
    /\ mode = "plan"
    /\ gpc \in {"idle", "ended"}
    /\ gcalls < MaxCalls
    /\ gcalls' = gcalls + 1
    /\ gquery' = query
    /\ ganalyze' = analyze
    /\ conn_log' = <<>>
    /\ IF IsEmptyQuery(query) \/ RefusesAnalyze(analyze, _detect_query_type(query))
       THEN gpc' = "ended" /\ goutcome' = "ValueError"
       ELSE gpc' = "getconn" /\ goutcome' = "none"
    /\ UNCHANGED <<mode, batchVars, poolVars, callVars, pool_out>>

\* conn = self.connection_pool.getconn()
GetConnection ==
    /\ gpc = "getconn"
    /\ \/ /\ conn_log' = Append(conn_log, Event("getconn", FALSE))
          /\ pool_out' = pool_out + 1
          /\ gpc' = IF ganalyze THEN "timeout" ELSE "explain"
          /\ UNCHANGED goutcome
       \/ \* getconn raises a psycopg2 error: conn stays None, nothing to put back
          /\ gpc' = "ended"
          /\ goutcome' = "ConnectionError"
          /\ UNCHANGED <<conn_log, pool_out>>
    /\ UNCHANGED <<mode, batchVars, poolVars, callVars, gquery, ganalyze, gcalls>>

\* cursor.execute("SET LOCAL statement_timeout = ...")
SetStatementTimeout ==
    /\ gpc = "timeout"
    /\ \/ /\ conn_log' = Append(conn_log, Event("set_timeout", FALSE))
          /\ gpc' = "explain"
       \/ \* the database raises
          /\ gpc' = "db_error"
          /\ UNCHANGED conn_log
    /\ UNCHANGED <<mode, batchVars, poolVars, callVars, gquery, ganalyze, goutcome, pool_out, gcalls>>

\* cursor.execute(full_query)
ExecuteExplain ==
    /\ gpc = "explain"
    /\ conn_log' = Append(conn_log, Event("explain", ganalyze))
    /\ \/ gpc' = "fetch"
       \/ gpc' = "db_error"
    /\ UNCHANGED <<mode, batchVars, poolVars, callVars, gquery, ganalyze, goutcome, pool_out, gcalls>>

\* result = cursor.fetchone(), then conn.rollback() and the return statement,
\* or RuntimeError("EXPLAIN returned no results")
FetchPlan ==
    /\ gpc = "fetch"
    /\ \/ /\ conn_log' = Append(conn_log, Event("rollback", FALSE))
          /\ gpc' = "return"
       \/ /\ gpc' = "no_row"
          /\ UNCHANGED conn_log
    /\ UNCHANGED <<mode, batchVars, poolVars, callVars, gquery, ganalyze, goutcome, pool_out, gcalls>>

\* how the call ends once the with-block is left: get_connection's
\* `except PsycopgError` turns a database error into ConnectionError
ExitOutcome(pc) ==
    CASE pc = "return" -> "returned"
      [] pc = "no_row" -> "RuntimeError"
      [] pc = "db_error" -> "ConnectionError"

\* get_connection's finally: self.connection_pool.putconn(conn)
ReleaseConnection ==
    /\ gpc \in {"return", "no_row", "db_error"}
    /\ conn_log' = Append(conn_log, Event("putconn", FALSE))
    /\ pool_out' = pool_out - 1
    /\ goutcome' = ExitOutcome(gpc)
    /\ gpc' = "ended"
    /\ UNCHANGED <<mode, batchVars, poolVars, callVars, gquery, ganalyze, gcalls>>

NextPlan ==
    \/ \E query \in GatewayQueries, analyze \in BOOLEAN : CallExplainPlan(query, analyze)
    \/ GetConnection
    \/ SetStatementTimeout
    \/ ExecuteExplain
    \/ FetchPlan
    \/ ReleaseConnection

SpecPlan == InitPlan /\ [][NextPlan]_vars

(***************************************************************************)
(* Properties of get_explain_plan (checked under SpecPlan).                *)
(***************************************************************************)
Called == gcalls > 0
Ended == Called /\ gpc = "ended"

\* the call was refused before any I/O
RejectedOutright == conn_log = <<>> /\ (Ended => goutcome = "ValueError")

\* words that make a statement modify data or schema
ModifyingWords ==
    {"INSERT", "UPDATE", "DELETE", "MERGE", "CALL", "CREATE", "ALTER", "DROP", "TRUNCATE"}

\* a statement that begins with SELECT or WITH and holds no modifying word
IsPureSelect(q) ==
    LET text == Upper(Strip(q))
    IN  /\ text # <<>>
        /\ text[1] \in {"SELECT", "WITH"}
        /\ \A k \in 1..Len(text) : text[k] \notin ModifyingWords

\* C8: for every query that is not a pure SELECT, get_explain_plan with
\* analyze=True raises before acquiring a connection and never issues
\* EXPLAIN ANALYZE for it.
C8_NoRuntimeExecutionOfModifyingSQL ==
    (Called /\ ganalyze /\ ~IsPureSelect(gquery)) =>
        /\ RejectedOutright
        /\ \A k \in 1..Len(conn_log) :
              ~(conn_log[k].op = "explain" /\ conn_log[k].analyze)

RefusedTypes == {"INSERT", "UPDATE", "DELETE", "DDL"}

C10_RollbackAndTimeoutOnEveryPath ==
    /\ \A k \in 1..Len(conn_log) :
          conn_log[k].op = "putconn" =>
              \E j \in 1..(k - 1) : conn_log[j].op = "rollback"
    /\ \A k \in 1..Len(conn_log) :
          conn_log[k].op = "explain" =>
              \E j \in 1..(k - 1) : conn_log[j].op = "set_timeout"

(***************************************************************************)
(* The connection pool under the workers of a batch: every operation of    *)
(* the gateway goes through DatabaseConnector.get_connection.              *)
(***************************************************************************)
MaxPool == 2

\* the gateway operations a worker makes for one query, in the order of
\* analyse_single_query: the plan request, then for a proposal two column
\* statistics calls, then index count and write ratio of its table; and the
\* operations outside the per-query path
AnalysisOps == <<"plan", "column_stats", "column_stats", "index_count", "write_ratio">>
Programs == {AnalysisOps, <<"plan">>, <<"existing_indexes", "row_count">>}

\* operations wrapped in `except Exception: return <defaults>`
SwallowsErrors(op) == op \in {"column_stats", "index_count", "write_ratio", "row_count"}

\* ThreadedConnectionPool.getconn raises PoolError when maxconn are in use
PoolExhausted_OneTooFew == pool_out + 1 >= pool_max
PoolExhausted == pool_out >= pool_max

\* get_connection's `finally: if conn:` -- conn is set once getconn returned
PutsBack_OnlyOnReturn(log, exit) == log # <<>> /\ exit = "return"
PutsBack(log, exit) == log # <<>>

\* connections worker w holds
Held(w) ==
    Cardinality({k \in 1..Len(wlog[w]) : wlog[w][k] = "getconn"})
        - Cardinality({k \in 1..Len(wlog[w]) : wlog[w][k] = "putconn"})

\* what is left of the worker's program once its current operation ended:
\* an error of a swallowing operation is replaced by defaults, any other
\* error ends the query
Remaining(ops, exit) ==
    IF exit = "return" \/ SwallowsErrors(Head(ops)) THEN Tail(ops) ELSE <<>>

Workers == 1..max_workers

InitPool ==
    /\ mode = "pool"
    /\ GatewayIdle
    /\ CallIdle
    /\ queries = <<>>
    /\ max_workers \in 1..MaxWorkers
    /\ callback = "none"
    /\ qpc = <<>>
    /\ qres = <<>>
    /\ qtmp = <<>>
    /\ completed = 0
    /\ lock = 0
    /\ progress_calls = <<>>
    /\ results = <<>>
    /\ report = NoReport
    /\ pool_max \in 1..MaxPool
    /\ wpc = [w \in 1..max_workers |-> "ready"]
    /\ wops \in [1..max_workers -> Programs]
    /\ wlog = [w \in 1..max_workers |-> <<>>]
    /\ wexit = [w \in 1..max_workers |-> "none"]
    /\ wlost = [w \in 1..max_workers |-> FALSE]

\* the operation ends: its with-block was left by `exit`
EndOperation(w, exit) ==
    /\ wexit' = [wexit EXCEPT ![w] = exit]
    /\ wops' = [wops EXCEPT ![w] = Remaining(wops[w], exit)]
    /\ wpc' = [wpc EXCEPT ![w] = IF Remaining(wops[w], exit) = <<>> THEN "done" ELSE "ready"]

\* `with self.get_connection() as conn`: conn = self.connection_pool.getconn()
AcquireConnection(w) ==
    /\ mode = "pool"
    /\ wpc[w] = "ready"
    /\ \/ /\ ~PoolExhausted
          /\ pool_out' = pool_out + 1
          /\ wlog' = [wlog EXCEPT ![w] = <<"getconn">>]
          /\ wpc' = [wpc EXCEPT ![w] = "body"]
          /\ UNCHANGED <<wops, wexit, wlost>>
       \/ \* getconn raises (pool exhausted, or the server refuses): conn is None
          /\ wlog' = [wlog EXCEPT ![w] = <<>>]
          /\ wlost' = [wlost EXCEPT ![w] = @ \/ PoolExhausted]
          /\ EndOperation(w, "acquire_failed")
          /\ UNCHANGED pool_out
    /\ UNCHANGED <<mode, batchVars, callVars, pool_max,
                   gquery, ganalyze, gpc, goutcome, conn_log, gcalls>>

\* the with-block is left (return, a psycopg2 error, any other exception) and
\* get_connection's except/finally clauses run
LeaveConnection(w, exit) ==
    /\ mode = "pool"
    /\ wpc[w] = "body"
    /\ IF PutsBack(wlog[w], exit)
       THEN /\ wlog' = [wlog EXCEPT ![w] = Append(@, "putconn")]
            /\ pool_out' = pool_out - 1
       ELSE UNCHANGED <<wlog, pool_out>>
    /\ EndOperation(w, exit)
    /\ UNCHANGED <<mode, batchVars, callVars, pool_max, wlost,
                   gquery, ganalyze, gpc, goutcome, conn_log, gcalls>>

NextPool ==
    \/ \E w \in Workers : AcquireConnection(w)
    \/ \E w \in Workers, exit \in {"return", "db_error", "other_error"} :
          LeaveConnection(w, exit)

SpecPool == InitPool /\ [][NextPool]_vars

\* no worker is inside a gateway operation
AllOperationsCompleted == \A w \in Workers : wpc[w] \in {"ready", "done"}

\* C11: every connection obtained through get_connection is put back exactly
\* once however the with-block is left, nothing is put back when getconn
\* itself failed, and once every gateway operation has completed no
\* connection is checked out.
C11_ConnectionReturnedExactlyOnce ==
    /\ \A w \in Workers :
          /\ wpc[w] = "body" => wlog[w] = <<"getconn">>
          /\ wpc[w] \in {"ready", "done"} =>
                wlog[w] = IF wexit[w] \in {"none", "acquire_failed"}
                          THEN <<>> ELSE <<"getconn", "putconn">>
    /\ pool_out = Cardinality({w \in Workers : wpc[w] = "body"})
    /\ AllOperationsCompleted => pool_out = 0

\* a query's operations all completed although a statistics call hit a
\* database error inside its with-block
C11_Witness ==
    /\ \A w \in Workers : wpc[w] = "done"
    /\ \E w \in Workers : wexit[w] = "db_error" /\ wlog[w] = <<"getconn", "putconn">>
    /\ \E w \in Workers : wexit[w] = "acquire_failed"
    /\ pool_out = 0

\* C12: a worker holds at most one pooled connection at a time, so at most
\* max_workers connections are checked out, and when max_workers <= pool_max no
\* operation of the batch finds the pool exhausted.
C12_AtMostOneConnectionPerWorker ==
    /\ \A w \in Workers : Held(w) \in {0, 1}
    /\ pool_out <= max_workers
    /\ max_workers <= pool_max => \A w \in Workers : ~wlost[w]

\* as many workers as the pool has connections, all of them inside a
\* gateway operation at once
C12_Witness ==
    /\ max_workers = pool_max
    /\ max_workers >= 2
    /\ \A w \in Workers : Held(w) = 1
    /\ pool_out = pool_max

(***************************************************************************)
(* Placeholders: what analyse_single_query passes to the plan request.  A  *)
(* query is here a sequence of characters.                                 *)
(***************************************************************************)
MaxQueryLen == 5

QueryChars == {"$", "0", "1", "2", "3", "x"}
Digits == {"0", "1", "2", "3", "4", "5", "6", "7", "8", "9"}
DigitValue(c) ==
    CASE c = "0" -> 0 [] c = "1" -> 1 [] c = "2" -> 2 [] c = "3" -> 3 [] c = "4" -> 4
      [] c = "5" -> 5 [] c = "6" -> 6 [] c = "7" -> 7 [] c = "8" -> 8 [] c = "9" -> 9

\* the replacement text, one element of the sequence
PlaceholderLiteral == "'placeholder'"

\* `sub in s`
Contains(s, sub) ==
    \E i \in 1..(Len(s) - Len(sub) + 1) : SubSeq(s, i, i + Len(sub) - 1) = sub

\* the end of the run of digits that starts at position i
RECURSIVE DigitRunEnd(_, _)
DigitRunEnd(s, i) ==
    IF i < Len(s) /\ s[i + 1] \in Digits THEN DigitRunEnd(s, i + 1) ELSE i

\* whether a match of \$\d+ starts at position i
MatchesAt(s, i) == s[i] = "$" /\ i < Len(s) /\ s[i + 1] \in Digits

\* re.findall(r'\$\d+', query), from position i on, as a set
RECURSIVE FindAll(_, _)
FindAll(s, i) ==
    IF i > Len(s) THEN {}
    ELSE IF MatchesAt(s, i)
         THEN {SubSeq(s, i, DigitRunEnd(s, i + 1))} \cup FindAll(s, DigitRunEnd(s, i + 1) + 1)
         ELSE FindAll(s, i + 1)

\* int(x[1:])
RECURSIVE IntOf(_)
IntOf(digits) ==
    IF digits = <<>> THEN 0
    ELSE 10 * IntOf(SubSeq(digits, 1, Len(digits) - 1)) + DigitValue(digits[Len(digits)])
PlaceholderNumber(ph) == IntOf(Tail(ph))

\* str.replace(ph, lit): leftmost occurrences, not overlapping
RECURSIVE Replace(_, _, _)
Replace(s, ph, lit) ==
    IF s = <<>> THEN <<>>
    ELSE IF Len(s) >= Len(ph) /\ SubSeq(s, 1, Len(ph)) = ph
         THEN <<lit>> \o Replace(SubSeq(s, Len(ph) + 1, Len(s)), ph, lit)
         ELSE <<Head(s)>> \o Replace(Tail(s), ph, lit)

\* the next placeholder of sorted(set(placeholders), key=lambda x: -int(x[1:])):
\* one of the greatest number; among equal numbers ($0 and $00) the order is
\* that of the set's iteration, here the choice `tie`
NextPlaceholder(phs, tie) ==
    LET top == {p \in phs : \A q \in phs : PlaceholderNumber(q) <= PlaceholderNumber(p)}
    IN  CHOOSE p \in top :
            \A q \in top : IF tie = "shorter_first" THEN Len(p) <= Len(q)
                           ELSE Len(p) >= Len(q)

RECURSIVE ReplaceEach(_, _, _)
ReplaceEach(s, phs, tie) ==
    IF phs = {} THEN s
    ELSE LET ph == NextPlaceholder(phs, tie)
         IN  ReplaceEach(Replace(s, ph, PlaceholderLiteral), phs \ {ph}, tie)

_replace_placeholders(query, tie) == ReplaceEach(query, FindAll(query, 1), tie)

\* a test that looks for any placeholder
NeedsReplacement_AnyPlaceholder(query) == FindAll(query, 1) # {}

\* `if '$1' in query or '$2' in query`
NeedsReplacement(query) == Contains(query, <<"$", "1">>) \/ Contains(query, <<"$", "2">>)

\* the query analyse_single_query hands to get_explain_plan
PlanRequestQuery(query, tie) ==
    IF NeedsReplacement(query) THEN _replace_placeholders(query, tie) ELSE query

InitPlaceholders ==
    /\ mode = "placeholders"
    /\ GatewayIdle
    /\ PoolIdle
    /\ queries = <<>>
    /\ max_workers = 1
    /\ callback = "none"
    /\ qpc = <<>>
    /\ qres = <<>>
    /\ qtmp = <<>>
    /\ completed = 0
    /\ lock = 0
    /\ progress_calls = <<>>
    /\ results = <<>>
    /\ report = NoReport
    /\ arg \in SeqsUpTo(QueryChars, MaxQueryLen)
    /\ ret = NotCalled

\* analyse_single_query up to its call of get_explain_plan(query)
RequestPlan ==
    /\ mode = "placeholders"
    /\ ret = NotCalled
    /\ \E tie \in {"shorter_first", "longer_first"} :
          ret' = [called |-> TRUE, query |-> PlanRequestQuery(arg, tie)]
    /\ UNCHANGED <<mode, batchVars, gatewayVars, poolVars, arg>>

NextPlaceholders == RequestPlan

SpecPlaceholders == InitPlaceholders /\ [][NextPlaceholders]_vars

\* the query with each maximal $digits token replaced by the literal, read
\* from left to right
RECURSIVE EachTokenReplaced(_, _)
EachTokenReplaced(s, i) ==
    IF i > Len(s) THEN <<>>
    ELSE IF MatchesAt(s, i)
         THEN <<PlaceholderLiteral>> \o EachTokenReplaced(s, DigitRunEnd(s, i + 1) + 1)
         ELSE <<s[i]>> \o EachTokenReplaced(s, i + 1)

\* the query's placeholders all have a number N >= 1
OnlyPositivePlaceholders(query) == \A ph \in FindAll(query, 1) : PlaceholderNumber(ph) >= 1

\* C13: the SQL passed to the plan request holds no placeholder $N with
\* N >= 1, whatever the numbers of the query's placeholders; every occurrence
\* is replaced by the literal and a multi-digit placeholder is replaced as a
\* whole.
C13_NoPlaceholderReachesPlanRequest ==
    (ret # NotCalled /\ OnlyPositivePlaceholders(arg)) =>
        /\ FindAll(ret.query, 1) = {}
        /\ ret.query = EachTokenReplaced(arg, 1)

\* what does hold: a query that holds $1 or $2 has every placeholder replaced
ReplacedWhenOneOrTwoPresent ==
    (ret # NotCalled /\ OnlyPositivePlaceholders(arg) /\ NeedsReplacement(arg)) =>
        /\ FindAll(ret.query, 1) = {}
        /\ ret.query = EachTokenReplaced(arg, 1)

(***************************************************************************)
(* DatabaseConnector.detect_sequential_scans.  A plan tree is a sequence   *)
(* of nodes; node 1 is explain_output['explain_plan']['Plan'], node i > 1  *)
(* is an element of the 'Plans' list of node parent < i, and the 'Plans'   *)
(* list of a node holds its children in increasing position.  A node's     *)
(* 'Total Cost' is its position, so that an entry tells its node.          *)
(***************************************************************************)
MaxNodes == 4

NodeKinds ==
    { [node_type |-> "Seq Scan", relation |-> "users"],
      [node_type |-> "Seq Scan", relation |-> "orders"],
      [node_type |-> "Index Scan", relation |-> "users"],
      [node_type |-> "Hash Join", relation |-> "Unknown"] }

PlanNode(kind, parent, cost) ==
    [node_type |-> kind.node_type, relation |-> kind.relation,
     parent |-> parent, total_cost |-> cost]

\* the parent of each node of a tree of n nodes: the root has none (0), any
\* other node has a parent of smaller position
ParentMaps(n) ==
    {f \in [1..n -> 0..(n - 1)] : \A i \in 1..n : f[i] < i /\ (f[i] = 0 <=> i = 1)}

\* the plan tree of the given node kinds and parents
PlanTree(kinds, parents) ==
    [i \in 1..Len(kinds) |-> PlanNode(kinds[i], parents[i], i)]

\* the positions in `from..Len(tree)` of the children of node i, in order
RECURSIVE ChildrenFrom(_, _, _)
ChildrenFrom(tree, i, from) ==
    IF from > Len(tree) THEN <<>>
    ELSE (IF tree[from].parent = i THEN <<from>> ELSE <<>>) \o ChildrenFrom(tree, i, from + 1)

\* a walker that follows only the first child plan
ChildPlans_FirstOnly(tree, i) == FirstN(ChildrenFrom(tree, i, 1), 1)

\* node['Plans'], as positions
ChildPlans(tree, i) == ChildrenFrom(tree, i, 1)

\* the scan_info dict appended for a Seq Scan node
ScanInfo(node) == [table_name |-> node.relation, total_cost |-> node.total_cost]

RECURSIVE traverse_plan(_, _)
RECURSIVE TraverseEach(_, _)
\* `for child_plan in node['Plans']: traverse_plan(child_plan)`
TraverseEach(tree, kids) ==
    IF kids = <<>> THEN <<>>
    ELSE traverse_plan(tree, Head(kids)) \o TraverseEach(tree, Tail(kids))
\* what one call of traverse_plan appends to sequential_scans
traverse_plan(tree, i) ==
    (IF tree[i].node_type = "Seq Scan" THEN <<ScanInfo(tree[i])>> ELSE <<>>)
        \o TraverseEach(tree, ChildPlans(tree, i))

detect_sequential_scans(tree) == traverse_plan(tree, 1)

InitScans ==
    /\ mode = "scans"
    /\ GatewayIdle
    /\ PoolIdle
    /\ queries = <<>>
    /\ max_workers = 1
    /\ callback = "none"
    /\ qpc = <<>>
    /\ qres = <<>>
    /\ qtmp = <<>>
    /\ completed = 0
    /\ lock = 0
    /\ progress_calls = <<>>
    /\ results = <<>>
    /\ report = NoReport
    /\ \E n \in 1..MaxNodes :
          \E kinds \in [1..n -> NodeKinds], parents \in ParentMaps(n) :
              arg = PlanTree(kinds, parents)
    /\ ret = NotCalled

DetectSequentialScans ==
    /\ mode = "scans"
    /\ ret = NotCalled
    /\ ret' = [called |-> TRUE, scans |-> detect_sequential_scans(arg)]
    /\ UNCHANGED <<mode, batchVars, gatewayVars, poolVars, arg>>

NextScans == DetectSequentialScans

SpecScans == InitScans /\ [][NextScans]_vars

\* the ancestors of node i, itself included
RECURSIVE AncestorsOrSelf(_, _)
AncestorsOrSelf(tree, i) ==
    IF i = 0 THEN {} ELSE {i} \cup AncestorsOrSelf(tree, tree[i].parent)

\* node i comes before node j in the pre-order of the tree: it is an ancestor
\* of j, or below their last common ancestor its branch is the earlier child
PreorderBefore(tree, i, j) ==
    /\ i # j
    /\ \/ i \in AncestorsOrSelf(tree, j)
       \/ /\ j \notin AncestorsOrSelf(tree, i)
          /\ \E a \in AncestorsOrSelf(tree, i), b \in AncestorsOrSelf(tree, j) :
                /\ a # b
                /\ tree[a].parent = tree[b].parent
                /\ a < b

SeqScanNodes(tree) == {i \in 1..Len(tree) : tree[i].node_type = "Seq Scan"}

\* C14: detect_sequential_scans returns one entry for each node whose Node
\* Type is 'Seq Scan' and none for any other node, in the pre-order of the
\* tree, at whatever depth the node lies and however often its relation is
\* scanned.
C14_OneEntryPerSeqScanInPreorder ==
    ret # NotCalled =>
        /\ Len(ret.scans) = Cardinality(SeqScanNodes(arg))
        /\ \A k \in 1..Len(ret.scans) :
              /\ ret.scans[k].total_cost \in SeqScanNodes(arg)
              /\ ret.scans[k].table_name = arg[ret.scans[k].total_cost].relation
        /\ \A k, l \in 1..Len(ret.scans) :
              k < l => PreorderBefore(arg, ret.scans[k].total_cost, ret.scans[l].total_cost)

\* two scans of the same relation, one of them two levels below the root and
\* met before a node of smaller position
C14_Witness ==
    /\ ret # NotCalled
    /\ Len(ret.scans) >= 3
    /\ \E k, l \in 1..Len(ret.scans) :
          k # l /\ ret.scans[k].table_name = ret.scans[l].table_name
    /\ \E k \in 1..(Len(ret.scans) - 1) : ret.scans[k].total_cost > ret.scans[k + 1].total_cost
    /\ \E k \in 1..Len(ret.scans) :
          arg[ret.scans[k].total_cost].parent > 1
    /\ arg[1].node_type = "Hash Join"

(***************************************************************************)
(* ColumnExtractor (src/src/query_parser.py), on the syntax tree of one    *)
(* SELECT statement as pglast returns it.                                  *)
(***************************************************************************)
\* ColumnRef(fields = [qualifier, column]); the qualifier "" is none
ColumnRef(q, c) == [node |-> "ColumnRef", qualifier |-> q, column |-> c]
\* A_Const(val = String(sval) | Integer(ival) | Float(fval)), by its text
A_Const(kind, text) == [node |-> "A_Const", kind |-> kind, text |-> text]
\* A_Expr(name = [op], lexpr, rexpr)
A_Expr(lexpr, op, rexpr) == [node |-> "A_Expr", op |-> op, lexpr |-> lexpr, rexpr |-> rexpr]
\* RangeVar(relname, alias); the alias "" is none
RangeVar(relname, alias) == [node |-> "RangeVar", relname |-> relname, alias |-> alias]
\* JoinExpr(quals, larg, rarg); the quals are the operands of its AND
JoinExpr(quals, larg, rarg) ==
    [node |-> "JoinExpr", quals |-> quals, larg |-> larg, rarg |-> rarg]
\* SelectStmt; whereClause holds the operands of its AND, sortClause the
\* column of each SortBy
SelectStmt(whereClause, sortClause, fromClause) ==
    [whereClause |-> whereClause, sortClause |-> sortClause, fromClause |-> fromClause]

\* ColumnExtractor.__init__
NewExtractor ==
    [tables |-> <<>>, table_aliases |-> <<>>,
     where_columns |-> {}, order_by_columns |-> {}, join_columns |-> {},
     where_column_tables |-> <<>>, order_by_column_tables |-> <<>>,
     join_column_tables |-> <<>>,
     column_predicate_types |-> <<>>, constant_filters |-> <<>>]

\* `self.table_aliases.get(qualifier, qualifier)`
ResolveQualifier(ext, q) ==
    IF DictHas(ext.table_aliases, q) THEN DictGet(ext.table_aliases, q) ELSE q

\* the operator class of an A_Expr met in the WHERE tree
OperatorClass(op) ==
    IF op = "=" THEN "equality"
    ELSE IF op \in {"<", ">", "<=", ">=", "<>", "!="} THEN "range"
    ELSE "other"

\* constant_value of `column = constant`: a quoted String, the digits of an
\* Integer, None ("") for any other constant
ConstantValue(const) ==
    IF const.kind = "String" THEN "'" \o const.text \o "'"
    ELSE IF const.kind = "Integer" THEN const.text
    ELSE ""

\* the ColumnRef branch of _visit_node; operator "" is None
VisitColumnRef(ext, ref, context, operator) ==
    LET col_name == ref.column
        qualified == ref.qualifier # ""
        table_name == ResolveQualifier(ext, ref.qualifier)
    IN  IF context = "where"
        THEN [ext EXCEPT
                !.where_columns = @ \cup {col_name},
                !.where_column_tables =
                    IF qualified THEN DictSet(@, col_name, table_name) ELSE @,
                !.column_predicate_types =
                    IF operator # "" THEN DictSet(@, col_name, operator)
                    ELSE IF ~DictHas(@, col_name) THEN DictSet(@, col_name, "other")
                    ELSE @]
        ELSE IF context = "order_by"
        THEN [ext EXCEPT
                !.order_by_columns = @ \cup {col_name},
                !.order_by_column_tables =
                    IF qualified THEN DictSet(@, col_name, table_name) ELSE @]
        ELSE IF context = "join"
        THEN [ext EXCEPT
                !.join_columns = @ \cup {col_name},
                !.join_column_tables =
                    IF qualified THEN DictSet(@, col_name, table_name) ELSE @]
        ELSE ext

\* an operand of an A_Expr: a ColumnRef is recorded, a constant leaves no trace
VisitOperand(ext, operand, context, operator) ==
    IF operand.node = "ColumnRef" THEN VisitColumnRef(ext, operand, context, operator)
    ELSE ext

\* the A_Expr branch (context 'where') and the generic branch (any other
\* context) of _visit_node
VisitExpr(ext, expr, context) ==
    LET operator == IF context = "where" THEN OperatorClass(expr.op) ELSE ""
        isConstantFilter ==
            /\ context = "where"
            /\ expr.op = "="
            /\ expr.lexpr.node = "ColumnRef"
            /\ expr.rexpr.node = "A_Const"
            /\ ConstantValue(expr.rexpr) # ""
        noted == IF isConstantFilter
                 THEN [ext EXCEPT !.constant_filters =
                          DictSet(@, expr.lexpr.column, ConstantValue(expr.rexpr))]
                 ELSE ext
    IN  VisitOperand(VisitOperand(noted, expr.lexpr, context, operator),
                     expr.rexpr, context, operator)

RECURSIVE VisitExprs(_, _, _)
VisitExprs(ext, exprs, context) ==
    IF exprs = <<>> THEN ext
    ELSE VisitExprs(VisitExpr(ext, Head(exprs), context), Tail(exprs), context)

RECURSIVE VisitColumns(_, _, _)
\* `for sort_item in node.sortClause: self._visit_node(sort_item, 'order_by')`
VisitColumns(ext, refs, context) ==
    IF refs = <<>> THEN ext
    ELSE VisitColumns(VisitColumnRef(ext, Head(refs), context, ""), Tail(refs), context)

\* the RangeVar branch of _visit_node
VisitRangeVar(ext, rv) ==
    [ext EXCEPT
        !.tables = Append(@, rv.relname),
        !.table_aliases =
            IF rv.alias # "" THEN DictSet(@, rv.alias, rv.relname)
            ELSE DictSet(@, rv.relname, rv.relname)]

RECURSIVE VisitFromItem(_, _)
\* a FROM item: a RangeVar, or a JoinExpr (quals first, then larg, then rarg)
VisitFromItem(ext, item) ==
    IF item.node = "RangeVar" THEN VisitRangeVar(ext, item)
    ELSE VisitFromItem(
             VisitFromItem(VisitExprs(ext, item.quals, "join"), item.larg),
             item.rarg)

RECURSIVE VisitFromItems(_, _)
VisitFromItems(ext, items) ==
    IF items = <<>> THEN ext
    ELSE VisitFromItems(VisitFromItem(ext, Head(items)), Tail(items))

\* the SelectStmt branch of _visit_node: whereClause, sortClause, fromClause
VisitSelectStmt(ext, stmt) ==
    VisitFromItems(
        VisitColumns(VisitExprs(ext, stmt.whereClause, "where"),
                     stmt.sortClause, "order_by"),
        stmt.fromClause)

\* QueryParser.get_all_info
get_all_info(stmt) == VisitSelectStmt(NewExtractor, stmt)

(***************************************************************************)
(* IndexRecommender (src/src/recommender.py), with a gateway.  Fractions   *)
(* are whole numbers of a unit: selectivity in millionths, improvement and *)
(* expected_improvement_pct in ten-thousandths (98% is 9800), correlation  *)
(* and null_frac in hundredths, write ratio in percent.  Plan costs of the *)
(* workload are multiples of 10000, so cost * improvement is whole.        *)
(***************************************************************************)



Min(a, b) == IF a < b THEN a ELSE b
Max(a, b) == IF a > b THEN a ELSE b
Abs(a) == IF a < 0 THEN -a ELSE a

\* what get_column_statistics returns for a column under a catalog; "none" is
\* a column without pg_stats row (or a failed statistics query)
ColumnStatistics(catalog, table, column) ==
    CASE catalog.stats = "unique" ->
            [has_stats |-> TRUE, total_rows |-> 500000, n_distinct_values |-> 500000,
             null_frac |-> 0, correlation |-> 0]
      [] catalog.stats = "few_values" ->
            [has_stats |-> TRUE, total_rows |-> 500000, n_distinct_values |-> 5,
             null_frac |-> 50, correlation |-> -100]
      [] catalog.stats = "empty_table" ->
            [has_stats |-> TRUE, total_rows |-> 0, n_distinct_values |-> 0,
             null_frac |-> 0, correlation |-> 100]
      [] OTHER ->
            [has_stats |-> FALSE, total_rows |-> 0, n_distinct_values |-> 0,
             null_frac |-> 0, correlation |-> 0]

\* 1 - (rows_removed / max(rows_scanned, 1))
ExplainSelectivity(rows_scanned, rows_removed) ==
    1000000 - ((rows_removed * 1000000) \div Max(rows_scanned, 1))

_calculate_selectivity_from_stats(catalog, table_name, columns, rows_scanned, rows_removed) ==
    LET stats == ColumnStatistics(catalog, table_name, columns[1])
        base_selectivity ==
            ((1000000 \div stats.n_distinct_values) * (100 - stats.null_frac)) \div 100
        selectivity ==
            IF rows_scanned > 0
            THEN (6 * ExplainSelectivity(rows_scanned, rows_removed) + 4 * base_selectivity) \div 10
            ELSE base_selectivity
    IN  IF columns = <<>> THEN 100000
        ELSE IF ~stats.has_stats
             THEN IF rows_scanned > 0 THEN ExplainSelectivity(rows_scanned, rows_removed)
                  ELSE 100000
        ELSE IF stats.total_rows = 0 \/ stats.n_distinct_values = 0 THEN 100000
        ELSE Max(1000, Min(1000000, selectivity))

_estimate_improvement_from_selectivity(selectivity, correlation) ==
    LET base_improvement ==
            IF selectivity < 1000 THEN 9800
            ELSE IF selectivity < 10000 THEN 9500
            ELSE IF selectivity < 50000 THEN 8500
            ELSE IF selectivity < 100000 THEN 7000
            ELSE IF selectivity < 200000 THEN 5000
            ELSE 2000
        \* abs(correlation) * 0.15, in ten-thousandths
        correlation_penalty == Abs(correlation) * 15
        adjusted_improvement ==
            (base_improvement * (10000 - correlation_penalty)) \div 10000
    IN  Max(500, Min(9800, adjusted_improvement))

_create_recommendation(catalog, table_name, columns, scan_info, reason, partial_predicate) ==
    LET current_cost == scan_info.total_cost
        fromStats == _calculate_selectivity_from_stats(
                         catalog, table_name, columns,
                         scan_info.rows_scanned, scan_info.rows_removed_by_filter)
        selectivity == IF partial_predicate # "" THEN (fromStats * 8) \div 10 ELSE fromStats
        correlation == IF columns # <<>>
                       THEN ColumnStatistics(catalog, table_name, columns[1]).correlation
                       ELSE 0
        estimated_improvement == _estimate_improvement_from_selectivity(selectivity, correlation)
        estimated_cost == (current_cost * (10000 - estimated_improvement)) \div 10000
        priority == (current_cost * estimated_improvement) \div 10000
    IN  [IndexRecommendation(table_name, columns, partial_predicate, priority,
                             current_cost, estimated_cost)
            EXCEPT !.reason = reason,
                   !.expected_improvement_pct = estimated_improvement]

\* [x for x in xs if keep]: the elements of a sequence that are in a set
RECURSIVE SelectIn(_, _)
SelectIn(xs, S) ==
    IF xs = <<>> THEN <<>>
    ELSE (IF Head(xs) \in S THEN <<Head(xs)>> ELSE <<>>) \o SelectIn(Tail(xs), S)

\* predicate_types.get(col, 'other')
PredicateType(predicate_types, col) ==
    IF DictHas(predicate_types, col) THEN DictGet(predicate_types, col) ELSE "other"

\* order_by_columns is never passed by analyse_query
_order_columns_for_index(columns, predicate_types) ==
    LET cols == {columns[i] : i \in 1..Len(columns)}
        OfType(t) == SelectIn(columns, {c \in cols : PredicateType(predicate_types, c) = t})
    IN  IF Len(columns) <= 1 THEN columns
        ELSE OfType("equality") \o OfType("range") \o OfType("other")

\* [col for col, tbl in d.items() if tbl == table_name]
RECURSIVE KeysWithValue(_, _)
KeysWithValue(d, v) ==
    IF d = <<>> THEN <<>>
    ELSE (IF Head(d).value = v THEN <<Head(d).key>> ELSE <<>>) \o KeysWithValue(Tail(d), v)

\* ' AND '.join(f"{col} = {val}" for the constant-filter columns)
PartialPredicate(constant_filters, cols) ==
    JoinStr([i \in 1..Len(cols) |-> cols[i] \o " = " \o DictGet(constant_filters, cols[i])],
            " AND ")

IsConstantFilter_Never(constant_filters, col) == FALSE

\* `col in constant_filters`
IsConstantFilter(constant_filters, col) == DictHas(constant_filters, col)

\* where_columns of one scan: the WHERE columns mapped to its table or, when
\* there are none and the query names one table, all the WHERE columns
WhereColumnsOf(query_info, table_name, whereList) ==
    LET mappedWhere == KeysWithValue(query_info.where_column_tables, table_name)
    IN  IF mappedWhere = <<>> /\ query_info.where_columns # {}
           /\ Len(query_info.tables) = 1
        THEN whereList ELSE mappedWhere

\* the two proposals one sequential scan can give: one from the WHERE
\* columns, one from the ORDER BY columns.  whereList and orderList are
\* list(query_info['where_columns']) and list(query_info['order_by_columns']),
\* the two sets in the order the interpreter iterates them.
ScanRecommendations(catalog, query_info, scan, whereList, orderList) ==
    LET table_name == scan.table_name
        constant_filters == query_info.constant_filters
        predicate_types == query_info.column_predicate_types
        where_columns == WhereColumnsOf(query_info, table_name, whereList)
        whereSet == {where_columns[i] : i \in 1..Len(where_columns)}
        constant_filter_cols ==
            SelectIn(where_columns, {c \in whereSet : IsConstantFilter(constant_filters, c)})
        unordered ==
            SelectIn(where_columns, {c \in whereSet : ~IsConstantFilter(constant_filters, c)})
        index_columns ==
            IF unordered # <<>> THEN _order_columns_for_index(unordered, predicate_types)
            ELSE unordered
        partial_predicate ==
            IF constant_filter_cols # <<>>
            THEN PartialPredicate(constant_filters, constant_filter_cols) ELSE ""
        whereReason == "Sequential scan on " \o table_name \o " with WHERE filter"
        whereRecs ==
            IF index_columns # <<>>
            THEN <<_create_recommendation(
                       catalog, table_name, index_columns, scan,
                       whereReason \o (IF partial_predicate # ""
                                       THEN " (partial index on constant filter)" ELSE ""),
                       partial_predicate)>>
            ELSE IF where_columns # <<>> /\ constant_filter_cols = <<>>
            THEN <<_create_recommendation(
                       catalog, table_name,
                       _order_columns_for_index(where_columns, predicate_types),
                       scan, whereReason, "")>>
            ELSE <<>>
        mappedOrder == KeysWithValue(query_info.order_by_column_tables, table_name)
        order_columns ==
            IF mappedOrder = <<>> /\ query_info.order_by_columns # {}
               /\ where_columns = <<>> /\ Len(query_info.tables) = 1
            THEN orderList ELSE mappedOrder
        orderRecs ==
            IF order_columns # <<>> /\ where_columns = <<>>
            THEN <<_create_recommendation(
                       catalog, table_name, order_columns, scan,
                       "Sequential scan on " \o table_name \o " with ORDER BY", "")>>
            ELSE <<>>
    IN  whereRecs \o orderRecs

RECURSIVE AllScanRecommendations(_, _, _, _, _)
\* `for scan in seq_scans`
AllScanRecommendations(catalog, query_info, seq_scans, whereList, orderList) ==
    IF seq_scans = <<>> THEN <<>>
    ELSE ScanRecommendations(catalog, query_info, Head(seq_scans), whereList, orderList)
         \o AllScanRecommendations(catalog, query_info, Tail(seq_scans), whereList, orderList)

RECURSIVE GroupJoinColumns(_, _)
\* table_join_columns: for each relation of join_column_tables, in the
\* order the relations first appear, its columns other than 'id'
GroupJoinColumns(join_column_tables, grouped) ==
    IF join_column_tables = <<>> THEN grouped
    ELSE LET col == Head(join_column_tables).key
             table == Head(join_column_tables).value
             started == IF DictHas(grouped, table) THEN grouped
                        ELSE DictSet(grouped, table, <<>>)
             added == IF col # "id"
                      THEN DictSet(started, table, Append(DictGet(started, table), col))
                      ELSE started
         IN  GroupJoinColumns(Tail(join_column_tables), added)

\* a join proposal keeps the dataclass defaults for costs and improvement
JoinRecommendation(table, cols) ==
    [IndexRecommendation(table, cols, "", 2, 0, 0)
        EXCEPT !.reason = "JOIN condition on " \o table]

RECURSIVE JoinRecommendations(_)
\* `for table, cols in table_join_columns.items(): if cols: ...`
JoinRecommendations(table_join_columns) ==
    IF table_join_columns = <<>> THEN <<>>
    ELSE LET entry == Head(table_join_columns)
         IN  (IF entry.value # <<>>
              THEN <<JoinRecommendation(entry.key, entry.value)>> ELSE <<>>)
             \o JoinRecommendations(Tail(table_join_columns))

ReplacesKept_AlsoOnTie(rec, kept) == rec.priority >= kept.priority

\* `rec.priority > unique_recs[key].priority`
ReplacesKept(rec, kept) == rec.priority > kept.priority

RECURSIVE UniqueRecommendations(_, _)
\* unique_recs of _prioritize_recommendations
UniqueRecommendations(recommendations, unique_recs) ==
    IF recommendations = <<>> THEN unique_recs
    ELSE LET rec == Head(recommendations)
             key == <<rec.table_name, SortedStrs(rec.columns)>>
         IN  UniqueRecommendations(
                 Tail(recommendations),
                 IF ~DictHas(unique_recs, key) \/ ReplacesKept(rec, DictGet(unique_recs, key))
                 THEN DictSet(unique_recs, key, rec) ELSE unique_recs)

_prioritize_recommendations(recommendations) ==
    SortByPriority(DictValues(UniqueRecommendations(recommendations, <<>>)))

\* check_over_indexing: the warning text, "" when should_warn is False;
\* write_overhead_per_index is 0.15 and ratios are whole percents
check_over_indexing(table_name, existing_index_count, table_write_ratio) ==
    LET total_overhead == (existing_index_count + 1) * 15
        many == IF existing_index_count >= 5
                THEN "Table " \o table_name \o " already has "
                     \o ToString(existing_index_count)
                     \o " indexes. Adding more may degrade write performance."
                ELSE ""
        heavy == IF table_write_ratio > 50 /\ total_overhead > 30
                 THEN " Table has high write ratio (" \o ToString(table_write_ratio)
                      \o "%). Total write overhead: " \o ToString(total_overhead) \o "%"
                 ELSE ""
    IN  many \o heavy

\* the relations of the database
Relations == {"users", "orders"}

\* SELECT COUNT(*) FROM pg_indexes WHERE tablename = table_name: 0 for a name
\* that is no relation
_get_existing_index_count(catalog, table_name) ==
    IF table_name \in Relations THEN catalog.existing_index_count ELSE 0

\* writes / (writes + reads) from pg_stat_user_tables, in percent; 0.3 when
\* the relation has no row there or no operation was counted
_get_table_write_ratio(catalog, table_name) ==
    IF table_name \notin Relations THEN 30
    ELSE IF catalog.writes + catalog.reads = 0 THEN 30
    ELSE (catalog.writes * 100) \div (catalog.writes + catalog.reads)

SiblingsBefore_NotCounted(recommendations, i) == 0

\* how often `existing_count += 1` ran for the table before proposal i is
\* checked: once per earlier proposal of the same table
SiblingsBefore(recommendations, i) ==
    Cardinality({j \in 1..(i - 1) :
                    recommendations[j].table_name = recommendations[i].table_name})

_add_over_indexing_warnings(catalog, recommendations) ==
    [i \in 1..Len(recommendations) |->
        LET rec == recommendations[i]
            message == check_over_indexing(
                           rec.table_name,
                           _get_existing_index_count(catalog, rec.table_name)
                               + SiblingsBefore(recommendations, i),
                           _get_table_write_ratio(catalog, rec.table_name))
        IN  IF message # "" THEN [rec EXCEPT !.warning = message] ELSE rec]

\* `recommendations` before _prioritize_recommendations: the proposals of the
\* scans in list order, then the join proposals
GeneratedRecommendations(catalog, stmt, seq_scans, whereList, orderList) ==
    LET query_info == get_all_info(stmt)
    IN  AllScanRecommendations(catalog, query_info, seq_scans, whereList, orderList)
        \o JoinRecommendations(GroupJoinColumns(query_info.join_column_tables, <<>>))

\* IndexRecommender.analyse_query on a parsed statement and the sequential
\* scans of its plan
analyse_query(catalog, stmt, seq_scans, whereList, orderList) ==
    _add_over_indexing_warnings(
        catalog,
        _prioritize_recommendations(
            GeneratedRecommendations(catalog, stmt, seq_scans, whereList, orderList)))

(***************************************************************************)
(* Calls of analyse_query on a bounded family of statements, plans and     *)
(* catalogs.                                                               *)
(***************************************************************************)
MaxPredicates == 2

\* FROM users | FROM users u | FROM orders
\* | FROM users u JOIN orders o ON u.id = o.user_id
\* | FROM users JOIN orders ON users.account_id = orders.account_id
\* | FROM users JOIN orders ON users.id = orders.user_id
FromClauses ==
    { <<RangeVar("users", "")>>,
      <<RangeVar("users", "u")>>,
      <<RangeVar("orders", "")>>,
      <<JoinExpr(<<A_Expr(ColumnRef("u", "id"), "=", ColumnRef("o", "user_id"))>>,
                 RangeVar("users", "u"), RangeVar("orders", "o"))>>,
      <<JoinExpr(<<A_Expr(ColumnRef("users", "account_id"), "=",
                          ColumnRef("orders", "account_id"))>>,
                 RangeVar("users", ""), RangeVar("orders", ""))>>,
      <<JoinExpr(<<A_Expr(ColumnRef("users", "id"), "=", ColumnRef("orders", "user_id"))>>,
                 RangeVar("users", ""), RangeVar("orders", ""))>> }

\* email = 'u@x.com' | id = 7 | status = 'pending' | total > 500
\* | u.email > 'a' | o.status = 'completed' | orders.total > 500
\* | orders.status = 'pending'
Predicates ==
    { A_Expr(ColumnRef("", "email"), "=", A_Const("String", "u@x.com")),
      A_Expr(ColumnRef("", "id"), "=", A_Const("Integer", "7")),
      A_Expr(ColumnRef("", "status"), "=", A_Const("String", "pending")),
      A_Expr(ColumnRef("", "total"), ">", A_Const("Integer", "500")),
      A_Expr(ColumnRef("u", "email"), ">", A_Const("String", "a")),
      A_Expr(ColumnRef("o", "status"), "=", A_Const("String", "completed")),
      A_Expr(ColumnRef("orders", "total"), ">", A_Const("Integer", "500")),
      A_Expr(ColumnRef("orders", "status"), "=", A_Const("String", "pending")) }

\* ORDER BY created_at | ORDER BY u.created_at
SortColumns == { ColumnRef("", "created_at"), ColumnRef("u", "created_at") }

RECURSIVE RangeVarsOf(_)
\* the relations a FROM item declares, left to right
RangeVarsOf(item) ==
    IF item.node = "RangeVar" THEN <<item>>
    ELSE RangeVarsOf(item.larg) \o RangeVarsOf(item.rarg)

\* the names a column reference may be qualified with
QualifiersOf(fromClause) ==
    LET rvs == RangeVarsOf(fromClause[1])
    IN  {IF rvs[i].alias # "" THEN rvs[i].alias ELSE rvs[i].relname : i \in 1..Len(rvs)}

RelationsOf(fromClause) ==
    LET rvs == RangeVarsOf(fromClause[1])
    IN  {rvs[i].relname : i \in 1..Len(rvs)}

\* the sequences without repetition of at most n elements of S
DistinctSeqs(S, n) ==
    {sq \in SeqsUpTo(S, n) : \A i, j \in 1..Len(sq) : i # j => sq[i] # sq[j]}

\* the statements PostgreSQL accepts: every qualifier is declared in FROM
Statements ==
    {SelectStmt(w, o, f) :
        w \in DistinctSeqs(Predicates, MaxPredicates),
        o \in DistinctSeqs(SortColumns, 1),
        f \in FromClauses}

WellQualified(stmt) ==
    LET allowed == QualifiersOf(stmt.fromClause) \cup {""}
    IN  /\ \A i \in 1..Len(stmt.whereClause) :
              stmt.whereClause[i].lexpr.qualifier \in allowed
        /\ \A i \in 1..Len(stmt.sortClause) : stmt.sortClause[i].qualifier \in allowed

\* Total Cost, Actual Rows and Rows Removed by Filter of the Seq Scan nodes
ScanProfiles ==
    { [total_cost |-> 10000, rows_scanned |-> 0, rows_removed_by_filter |-> 0],
      [total_cost |-> 20000, rows_scanned |-> 1, rows_removed_by_filter |-> 99],
      [total_cost |-> 30000, rows_scanned |-> 1000, rows_removed_by_filter |-> 100] }

\* the scan_info dict of a Seq Scan node, with the fields analyse_query reads
SeqScanOf(table_name, profile) ==
    [table_name |-> table_name, total_cost |-> profile.total_cost,
     rows_scanned |-> profile.rows_scanned,
     rows_removed_by_filter |-> profile.rows_removed_by_filter]

\* the plans of a statement scan some of its relations sequentially
SeqScansOf(stmt) ==
    {[i \in 1..Len(tables) |-> SeqScanOf(tables[i], profile)] :
        tables \in DistinctSeqs(RelationsOf(stmt.fromClause), 2),
        profile \in ScanProfiles}

\* what pg_stats, pg_indexes and pg_stat_user_tables hold
Catalogs ==
    { [stats |-> "unique", existing_index_count |-> 0, writes |-> 0, reads |-> 0],
      [stats |-> "few_values", existing_index_count |-> 5, writes |-> 80, reads |-> 20],
      [stats |-> "empty_table", existing_index_count |-> 1, writes |-> 80, reads |-> 20],
      [stats |-> "none", existing_index_count |-> 4, writes |-> 30, reads |-> 70] }

\* list(a_set): the elements in some order
Orderings(S) ==
    {sq \in [1..Cardinality(S) -> S] : \A i, j \in 1..Cardinality(S) : i # j => sq[i] # sq[j]}

InitSynth ==
    /\ mode = "synth"
    /\ GatewayIdle
    /\ PoolIdle
    /\ queries = <<>>
    /\ max_workers = 1
    /\ callback = "none"
    /\ qpc = <<>>
    /\ qres = <<>>
    /\ qtmp = <<>>
    /\ completed = 0
    /\ lock = 0
    /\ progress_calls = <<>>
    /\ results = <<>>
    /\ report = NoReport
    /\ \E stmt \in Statements :
          /\ WellQualified(stmt)
          /\ \E seq_scans \in SeqScansOf(stmt), catalog \in Catalogs :
                arg = [stmt |-> stmt, seq_scans |-> seq_scans, catalog |-> catalog]
    /\ ret = NotCalled

AnalyseQuery ==
    /\ mode = "synth"
    /\ ret = NotCalled
    /\ LET query_info == get_all_info(arg.stmt)
       IN  \E whereList \in Orderings(query_info.where_columns),
              orderList \in Orderings(query_info.order_by_columns) :
                ret' = [called |-> TRUE,
                        query_info |-> query_info,
                        whereList |-> whereList,
                        generated |->
                            GeneratedRecommendations(arg.catalog, arg.stmt, arg.seq_scans,
                                                     whereList, orderList),
                        recommendations |->
                            analyse_query(arg.catalog, arg.stmt, arg.seq_scans,
                                          whereList, orderList)]
    /\ UNCHANGED <<mode, batchVars, gatewayVars, poolVars, arg>>

NextSynth == AnalyseQuery

SpecSynth == InitSynth /\ [][NextSynth]_vars

\* no batch is running
BatchIdle ==
    /\ queries = <<>>
    /\ max_workers = 1
    /\ callback = "none"
    /\ qpc = <<>>
    /\ qres = <<>>
    /\ qtmp = <<>>
    /\ completed = 0
    /\ lock = 0
    /\ progress_calls = <<>>
    /\ results = <<>>
    /\ report = NoReport

(***************************************************************************)
(* Calls of analyse_query on plans that scan a relation twice (a self join, *)
(* a subplan, a rescanned inner side): the same proposal is generated once  *)
(* per scan, at each scan's cost.                                           *)
(***************************************************************************)

\* email > 'a' | total > 500 | users.email > 'a' | orders.total > 500
RescanPredicates ==
    { A_Expr(ColumnRef("", "email"), ">", A_Const("String", "a")),
      A_Expr(ColumnRef("", "total"), ">", A_Const("Integer", "500")),
      A_Expr(ColumnRef("users", "email"), ">", A_Const("String", "a")),
      A_Expr(ColumnRef("orders", "total"), ">", A_Const("Integer", "500")) }

RescanStatements ==
    {SelectStmt(w, <<>>, f) :
        w \in DistinctSeqs(RescanPredicates, MaxPredicates), f \in FromClauses}

\* Total Cost, Actual Rows and Rows Removed by Filter of the Seq Scan nodes
RescanProfiles ==
    { [total_cost |-> 10000, rows_scanned |-> 0, rows_removed_by_filter |-> 0],
      [total_cost |-> 25000, rows_scanned |-> 1000, rows_removed_by_filter |-> 100] }

\* the first relation is scanned, then the others, then the first again
SeqRescansOf(stmt) ==
    {<<SeqScanOf(tables[1], first)>>
         \o [i \in 1..(Len(tables) - 1) |-> SeqScanOf(tables[i + 1], again)]
         \o <<SeqScanOf(tables[1], again)>> :
        tables \in DistinctSeqs(RelationsOf(stmt.fromClause), 2) \ {<<>>},
        first \in RescanProfiles, again \in RescanProfiles}

InitRescan ==
    /\ mode = "synth"
    /\ GatewayIdle
    /\ PoolIdle
    /\ BatchIdle
    /\ \E stmt \in RescanStatements :
          /\ WellQualified(stmt)
          /\ \E seq_scans \in SeqRescansOf(stmt), catalog \in Catalogs :
                arg = [stmt |-> stmt, seq_scans |-> seq_scans, catalog |-> catalog]
    /\ ret = NotCalled

SpecRescan == InitRescan /\ [][NextSynth]_vars

\* the <<alias, relation>> pairs a FROM clause declares
AliasesOf(fromClause) ==
    LET rvs == RangeVarsOf(fromClause[1])
    IN  {<<rvs[i].alias, rvs[i].relname>> : i \in {j \in 1..Len(rvs) : rvs[j].alias # ""}}

RECURSIVE JoinOperandsOf(_)
\* the column references of the join conditions of a FROM item
JoinOperandsOf(item) ==
    IF item.node = "RangeVar" THEN {}
    ELSE {item.quals[i].lexpr : i \in 1..Len(item.quals)}
         \cup {item.quals[i].rexpr : i \in 1..Len(item.quals)}
         \cup JoinOperandsOf(item.larg) \cup JoinOperandsOf(item.rarg)

\* the map sends column c to relation r
MapsTo(column_tables, c, r) == DictHas(column_tables, c) /\ DictGet(column_tables, c) = r

\* C15: when relation r is declared with alias q, a reference q.c in the
\* WHERE tree, in ORDER BY or in a JOIN condition is mapped to r, never to
\* the alias name q, in the column-to-table map of its clause.
C15_QualifiedReferenceMapsToRelation ==
    ret # NotCalled =>
        \A pair \in AliasesOf(arg.stmt.fromClause) :
            LET q == pair[1]
                r == pair[2]
            IN  /\ \A i \in 1..Len(arg.stmt.whereClause) :
                      arg.stmt.whereClause[i].lexpr.qualifier = q =>
                          MapsTo(ret.query_info.where_column_tables,
                                 arg.stmt.whereClause[i].lexpr.column, r)
                /\ \A i \in 1..Len(arg.stmt.sortClause) :
                      arg.stmt.sortClause[i].qualifier = q =>
                          MapsTo(ret.query_info.order_by_column_tables,
                                 arg.stmt.sortClause[i].column, r)
                /\ \A ref \in JoinOperandsOf(arg.stmt.fromClause[1]) :
                      ref.qualifier = q =>
                          MapsTo(ret.query_info.join_column_tables, ref.column, r)

\* the statement names one relation, without a join
SingleTable(stmt) == Len(stmt.fromClause) = 1 /\ stmt.fromClause[1].node = "RangeVar"

\* column = literal
IsEqualityOnLiteral(pred) ==
    pred.op = "=" /\ pred.lexpr.node = "ColumnRef" /\ pred.rexpr.node = "A_Const"

\* column > literal
IsRangeOnLiteral(pred) ==
    pred.op = ">" /\ pred.lexpr.node = "ColumnRef" /\ pred.rexpr.node = "A_Const"

\* the plan scans the relation sequentially
HasSeqScanOn(seq_scans, table_name) ==
    \E i \in 1..Len(seq_scans) : seq_scans[i].table_name = table_name

\* C16: for a single-table query whose only WHERE predicate is an equality
\* between a non-key column and a literal, with a Seq Scan on the table, the
\* synthesizer emits exactly one proposal, on that table, on that column,
\* without partial predicate, with DDL
\* CREATE INDEX idx_<table>_<col> ON <table> (<col>);
C16_EqualityOnLiteralGivesOneProposal ==
    (/\ ret # NotCalled
     /\ SingleTable(arg.stmt)
     /\ Len(arg.stmt.whereClause) = 1
     /\ IsEqualityOnLiteral(arg.stmt.whereClause[1])
     /\ arg.stmt.whereClause[1].lexpr.column # "id"
     /\ arg.stmt.sortClause = <<>>
     /\ HasSeqScanOn(arg.seq_scans, arg.stmt.fromClause[1].relname))
    => LET table == arg.stmt.fromClause[1].relname
           col == arg.stmt.whereClause[1].lexpr.column
       IN  /\ Len(ret.recommendations) = 1
           /\ ret.recommendations[1].table_name = table
           /\ ret.recommendations[1].columns = <<col>>
           /\ ret.recommendations[1].partial_index_predicate = ""
           /\ get_ddl(ret.recommendations[1])
                = "CREATE INDEX idx_" \o table \o "_" \o col
                    \o " ON " \o table \o " (" \o col \o ");"

\* the reasons analyse_query gives to the proposals it derives from a scan
ScanReasons(table_name) ==
    { "Sequential scan on " \o table_name \o " with WHERE filter",
      "Sequential scan on " \o table_name
          \o " with WHERE filter (partial index on constant filter)",
      "Sequential scan on " \o table_name \o " with ORDER BY" }

\* the WHERE columns selected for the scan are all constant-filter columns
AllConstantFilters(query_info, where_columns) ==
    /\ where_columns # <<>>
    /\ \A k \in 1..Len(where_columns) : DictHas(query_info.constant_filters, where_columns[k])

C18_EqualityBeforeRangeWithPartialPredicate ==
    (/\ ret # NotCalled
     /\ SingleTable(arg.stmt)
     /\ Len(arg.stmt.whereClause) = 2
     /\ IsEqualityOnLiteral(arg.stmt.whereClause[1])
     /\ IsRangeOnLiteral(arg.stmt.whereClause[2])
     /\ arg.stmt.sortClause = <<>>
     /\ HasSeqScanOn(arg.seq_scans, arg.stmt.fromClause[1].relname))
    => LET table == arg.stmt.fromClause[1].relname
           a == arg.stmt.whereClause[1].lexpr.column
           b == arg.stmt.whereClause[2].lexpr.column
           literal == ConstantValue(arg.stmt.whereClause[1].rexpr)
       IN  /\ Len(ret.recommendations) = 1
           /\ ret.recommendations[1].columns = <<a, b>>
           /\ ret.recommendations[1].partial_index_predicate = a \o " = " \o literal
           /\ get_index_name(ret.recommendations[1])
                = "idx_" \o table \o "_" \o a \o "_" \o b \o "_partial"

\* the relation a qualifier stands for in a FROM clause: the relation declared
\* with that alias, or the relation of that name declared without alias
RelationOf(fromClause, q) ==
    LET rvs == RangeVarsOf(fromClause[1])
        i == CHOOSE j \in 1..Len(rvs) :
                 \/ rvs[j].alias = q
                 \/ rvs[j].alias = "" /\ rvs[j].relname = q
    IN  rvs[i].relname

\* the non-id columns of relation r that the join conditions refer to
JoinColumnsOf(fromClause, r) ==
    {ref.column : ref \in {x \in JoinOperandsOf(fromClause[1]) :
                              x.column # "id" /\ RelationOf(fromClause, x.qualifier) = r}}

\* the positions of the returned proposals that no scan gave rise to
JoinDriven(recommendations) ==
    {k \in 1..Len(recommendations) :
        recommendations[k].reason \notin ScanReasons(recommendations[k].table_name)}

ColumnSet(rec) == {rec.columns[i] : i \in 1..Len(rec.columns)}

\* C19: each qualified column of a JOIN condition that is not named id is in
\* exactly one join-driven proposal, the one of its relation; there is one
\* such proposal per relation with a non-id join column, with priority 2 and
\* reason "JOIN condition on <relation>" naming the real relation; a column
\* named id is in no join-driven proposal.
C19_OneJoinProposalPerRelation ==
    ret # NotCalled =>
        LET recs == ret.recommendations
            from == arg.stmt.fromClause
        IN  /\ \A r \in RelationsOf(from) :
                  LET ofR == {k \in JoinDriven(recs) : recs[k].table_name = r}
                  IN  IF JoinColumnsOf(from, r) = {} THEN ofR = {}
                      ELSE /\ Cardinality(ofR) = 1
                           /\ \A k \in ofR : ColumnSet(recs[k]) = JoinColumnsOf(from, r)
            /\ \A k \in JoinDriven(recs) :
                  /\ recs[k].table_name \in RelationsOf(from)
                  /\ recs[k].priority = 2
                  /\ recs[k].reason = "JOIN condition on " \o recs[k].table_name
                  /\ "id" \notin ColumnSet(recs[k])

\* what does hold: join-driven proposals have priority 2, never list id, and
\* list only columns that a join condition refers to
JoinProposalsSkipId ==
    ret # NotCalled =>
        \A k \in JoinDriven(ret.recommendations) :
            /\ ret.recommendations[k].priority = 2
            /\ "id" \notin ColumnSet(ret.recommendations[k])
            /\ ColumnSet(ret.recommendations[k])
                 \subseteq {x.column : x \in JoinOperandsOf(arg.stmt.fromClause[1])}

\* improvement is within [0.05, 0.98], in ten-thousandths
ImprovementInRange(rec) ==
    rec.expected_improvement_pct >= 500 /\ rec.expected_improvement_pct <= 9800

\* estimated_cost = current_cost * (1 - improvement), in ten-thousandths
CostConsistent(rec) ==
    rec.estimated_cost * 10000 = rec.current_cost * (10000 - rec.expected_improvement_pct)

\* C20: every proposal analyse_query returns, from a WHERE clause, from an
\* ORDER BY or from a join, has an improvement within [0.05, 0.98] and
\* estimated_cost = current_cost * (1 - improvement).
C20_ImprovementBoundedAndCostConsistent ==
    ret # NotCalled =>
        \A k \in 1..Len(ret.recommendations) :
            /\ ImprovementInRange(ret.recommendations[k])
            /\ CostConsistent(ret.recommendations[k])

\* what does hold: the proposals that come from a scan are within the range
\* and cost-consistent
ScanProposalsBoundedAndCostConsistent ==
    ret # NotCalled =>
        \A k \in (1..Len(ret.recommendations)) \ JoinDriven(ret.recommendations) :
            /\ ImprovementInRange(ret.recommendations[k])
            /\ CostConsistent(ret.recommendations[k])

\* the warning condition of a proposal checked against `count` indexes
ShouldWarn(count, write_ratio) ==
    count >= 5 \/ (write_ratio > 50 /\ (count + 1) * 15 > 30)

MaxFilterRecs == 2
MaxIndexes == 2

\* str.lower on the column names of the workload
Lower(name) ==
    IF name = "Email" THEN "email"
    ELSE IF name = "Name" THEN "name"
    ELSE name

\* a row of get_existing_indexes: 'table' and the columns of 'definition'
ExistingIndex(table, columns) == [table |-> table, columns |-> columns]

\* users (email) | users (name) | users (Email, name) | orders (email)
\* | orders (name)
IndexPool ==
    { ExistingIndex("users", <<"email">>),
      ExistingIndex("users", <<"name">>),
      ExistingIndex("users", <<"Email", "name">>),
      ExistingIndex("orders", <<"email">>),
      ExistingIndex("orders", <<"name">>) }

FilterRecPool ==
    { IndexRecommendation(t, cols, "", 0, 0, 0) :
        t \in {"users", "orders"},
        cols \in {<<"email">>, <<"Email">>, <<"name">>, <<"email", "name">>} }

\* indexed_columns: every (table, column) pair of every existing index, the
\* definition lower-cased
IndexedColumns(existing) ==
    UNION { {<<idx.table, Lower(idx.columns[i])>> : i \in 1..Len(idx.columns)} :
              idx \in existing }

AllIndexed_AnyColumn(indexed_columns, rec) ==
    \E i \in 1..Len(rec.columns) :
        <<rec.table_name, Lower(rec.columns[i])>> \in indexed_columns

\* all((rec.table_name, col.lower()) in indexed_columns for col in rec.columns)
AllIndexed(indexed_columns, rec) ==
    \A i \in 1..Len(rec.columns) :
        <<rec.table_name, Lower(rec.columns[i])>> \in indexed_columns

RECURSIVE FilterNotIndexed(_, _)
\* `for rec in recommendations: if not all_indexed: filtered.append(rec)`
FilterNotIndexed(indexed_columns, recommendations) ==
    IF recommendations = <<>> THEN <<>>
    ELSE (IF ~AllIndexed(indexed_columns, Head(recommendations))
          THEN <<Head(recommendations)>> ELSE <<>>)
         \o FilterNotIndexed(indexed_columns, Tail(recommendations))

filter_recommendations_by_existing_indexes(existing, recommendations) ==
    FilterNotIndexed(IndexedColumns(existing), recommendations)

InitFilter ==
    /\ mode = "filter"
    /\ GatewayIdle
    /\ PoolIdle
    /\ BatchIdle
    /\ \E recommendations \in SeqsUpTo(FilterRecPool, MaxFilterRecs) :
          \E existing \in {S \in SUBSET IndexPool : Cardinality(S) <= MaxIndexes} :
              arg = [recommendations |-> recommendations, existing |-> existing]
    /\ ret = NotCalled

FilterRecommendations ==
    /\ mode = "filter"
    /\ ret = NotCalled
    /\ ret' = [called |-> TRUE,
               filtered |-> filter_recommendations_by_existing_indexes(
                                arg.existing, arg.recommendations)]
    /\ UNCHANGED <<mode, batchVars, gatewayVars, poolVars, arg>>

NextFilter == FilterRecommendations

SpecFilter == InitFilter /\ [][NextFilter]_vars

\* one existing index of the proposal's table holds every column of the
\* proposal, names compared without regard to case
CoveredByOneIndex(existing, rec) ==
    \E idx \in existing :
        /\ idx.table = rec.table_name
        /\ \A i \in 1..Len(rec.columns) :
              \E j \in 1..Len(idx.columns) : Lower(idx.columns[j]) = Lower(rec.columns[i])

\* every column of the proposal is in some existing index of the proposal's
\* table, not necessarily the same index for each column
CoveredColumnByColumn(existing, rec) ==
    \A i \in 1..Len(rec.columns) :
        \E idx \in existing :
            /\ idx.table = rec.table_name
            /\ \E j \in 1..Len(idx.columns) : Lower(idx.columns[j]) = Lower(rec.columns[i])

RECURSIVE Kept(_, _, _)
\* the proposals at the positions in `keep`, in their order
Kept(recommendations, keep, from) ==
    IF from > Len(recommendations) THEN <<>>
    ELSE (IF from \in keep THEN <<recommendations[from]>> ELSE <<>>)
         \o Kept(recommendations, keep, from + 1)

\* C22 as stated: the result is, in order and unmodified, exactly the
\* proposals that no single existing index of their table covers; a proposal
\* covered only jointly by several indexes is kept.
C22_DroppedOnlyWhenOneIndexCovers ==
    ret # NotCalled =>
        ret.filtered =
            Kept(arg.recommendations,
                 {i \in 1..Len(arg.recommendations) :
                     ~CoveredByOneIndex(arg.existing, arg.recommendations[i])}, 1)

\* C22 amended: the result is, in order and unmodified, exactly the proposals
\* with a column that no existing index of their table holds; a proposal whose
\* columns are spread over several indexes of its table is dropped, and an
\* index of another table never causes a drop.
C22_DroppedWhenEveryColumnIndexed ==
    ret # NotCalled =>
        ret.filtered =
            Kept(arg.recommendations,
                 {i \in 1..Len(arg.recommendations) :
                     ~CoveredColumnByColumn(arg.existing, arg.recommendations[i])}, 1)

\* users(email, name) is dropped because of the two indexes users (email) and
\* users (name), while orders(email, name) beside it is kept
C22_Witness ==
    /\ ret # NotCalled
    /\ arg.existing = {ExistingIndex("users", <<"email">>), ExistingIndex("users", <<"name">>)}
    /\ Len(arg.recommendations) = 2
    /\ arg.recommendations[1].table_name = "users"
    /\ arg.recommendations[1].columns = <<"email", "name">>
    /\ arg.recommendations[2].table_name = "orders"
    /\ arg.recommendations[2].columns = <<"email", "name">>
    /\ ret.filtered = <<arg.recommendations[2]>>

(***************************************************************************)
(* Cancellation of a batch.  analyse_queries takes no cancellation signal: *)
(* it has no parameter, attribute or handler a caller could cancel through,*)
(* so a signal given while the batch runs changes nothing of the run.  The *)
(* caller can give it in any state in which the batch has begun and the    *)
(* report is not built.                                                    *)
(***************************************************************************)
CancelPossible ==
    /\ mode = "batch"
    /\ report = NoReport
    /\ \E i \in Indices : qpc[i] # "queued"

\* C23: once the caller has signalled cancel during analyse_queries, no query
\* that has not started is started, the results of the in-flight workers are
\* dropped, and no report is built from what was collected.
C23_CancelStopsBatch ==
    [][CancelPossible =>
          /\ \A i \in Indices : qpc[i] = "queued" => qpc'[i] = "queued"
          /\ results' = results
          /\ report' = NoReport]_vars

\* the call that has ended had obtained a connection from the pool
ConnectionWasAcquired == \E k \in 1..Len(conn_log) : conn_log[k].op = "getconn"

\* C24: get_explain_plan reports a failure after a connection was acquired
\* (the database raising while the statement runs, or no row coming back) as
\* RuntimeError; ConnectionError is raised only when no connection could be
\* obtained from the pool.
C24_DocumentedErrorKinds ==
    (mode = "plan" /\ gpc = "ended") =>
        /\ (ConnectionWasAcquired /\ goutcome # "returned") => goutcome = "RuntimeError"
        /\ goutcome = "ConnectionError" => ~ConnectionWasAcquired

\* what does hold: a call that ends without having obtained a connection, and
\* not by ValueError, ends with ConnectionError
PoolFailureIsConnectionError ==
    (mode = "plan" /\ gpc = "ended" /\ ~ConnectionWasAcquired /\ goutcome # "ValueError")
        => goutcome = "ConnectionError"

(***************************************************************************)
(* Prioritisation of the proposals of one query (C25).                      *)
(***************************************************************************)

\* the key _prioritize_recommendations deduplicates by; proposals that share
\* it also share relation and sorted columns of the documented identity key
DedupKey(rec) == <<rec.table_name, SortedStrs(rec.columns)>>

Unwarned(rec) == [rec EXCEPT !.warning = ""]

\* the positions in the generated list of the proposals with this key
Duplicates(generated, key) ==
    {k \in 1..Len(generated) : DedupKey(generated[k]) = key}

\* the first generated proposal with this key
FirstGenerated(generated, key) ==
    CHOOSE k \in Duplicates(generated, key) :
        \A m \in Duplicates(generated, key) : k <= m

\* the first generated among the proposals of highest priority with this key
FirstBest(generated, key) ==
    CHOOSE k \in Duplicates(generated, key) :
        \A m \in Duplicates(generated, key) :
            \/ generated[m].priority < generated[k].priority
            \/ generated[m].priority = generated[k].priority /\ k <= m

SortedOnePerKeyFirstBest(recs, generated) ==
    /\ \A i, j \in 1..Len(recs) :
          /\ i < j => recs[i].priority >= recs[j].priority
          /\ i # j => DedupKey(recs[i]) # DedupKey(recs[j])
    /\ \A i \in 1..Len(recs) :
          /\ Duplicates(generated, DedupKey(recs[i])) # {}
          /\ Unwarned(recs[i]) = generated[FirstBest(generated, DedupKey(recs[i]))]
    /\ \A k \in 1..Len(generated) :
          \E i \in 1..Len(recs) : DedupKey(recs[i]) = DedupKey(generated[k])

ClassRank(predicate_types, col) ==
    CASE PredicateType(predicate_types, col) = "equality" -> 1
      [] PredicateType(predicate_types, col) = "range" -> 2
      [] OTHER -> 3

\* the columns of the ORDER BY clause, in their order
OrderByOf(stmt) == [i \in 1..Len(stmt.sortClause) |-> stmt.sortClause[i].column]

\* the columns are the WHERE columns of the proposal, by class, followed by
\* the ORDER BY columns that are not among them, in ORDER BY order
OrderedThenOrderBy(columns, predicate_types, where_columns, order_by) ==
    LET selected == SelectIn(columns, where_columns)
        present == {selected[i] : i \in 1..Len(selected)}
        all == {order_by[i] : i \in 1..Len(order_by)}
    IN  /\ \A i, j \in 1..Len(selected) :
              i < j => /\ selected[i] # selected[j]
                       /\ ClassRank(predicate_types, selected[i])
                              <= ClassRank(predicate_types, selected[j])
        /\ columns = selected \o SelectIn(order_by, all \ present)

\* C26: every proposal of analyse_query with two or more columns lists its
\* WHERE columns equality first, then range, then other, followed by the
\* ORDER BY columns of the query that are not yet present, in ORDER BY order.
C26_ClassOrderThenOrderByColumns ==
    (mode = "synth" /\ ret.called) =>
        \A i \in 1..Len(ret.recommendations) :
            Len(ret.recommendations[i].columns) >= 2 =>
                OrderedThenOrderBy(ret.recommendations[i].columns,
                                   ret.query_info.column_predicate_types,
                                   ret.query_info.where_columns,
                                   OrderByOf(arg.stmt))

\* without an ORDER BY clause the composite proposals are ordered by class
CompositeProposalsOrderedByClass ==
    (mode = "synth" /\ ret.called /\ arg.stmt.sortClause = <<>>) =>
        \A i \in 1..Len(ret.recommendations) :
            Len(ret.recommendations[i].columns) >= 2 =>
                OrderedThenOrderBy(ret.recommendations[i].columns,
                                   ret.query_info.column_predicate_types,
                                   ret.query_info.where_columns, <<>>)

(***************************************************************************)
(* Predicate types of columns referenced more than once (C27, C28).         *)
(***************************************************************************)

\* the positions of the WHERE operands that compare this column
ReferencesOf(stmt, col) ==
    {k \in 1..Len(stmt.whereClause) : stmt.whereClause[k].lexpr.column = col}

FirstReference(stmt, col) ==
    CHOOSE k \in ReferencesOf(stmt, col) : \A m \in ReferencesOf(stmt, col) : k <= m

LastReference(stmt, col) ==
    CHOOSE k \in ReferencesOf(stmt, col) : \A m \in ReferencesOf(stmt, col) : m <= k

\* C27: the predicate type recorded for a column of the WHERE clause is the
\* class of the operator of its first reference; later references do not
\* change it.
C27_FirstPredicateTypeWins ==
    (mode = "synth" /\ ret.called) =>
        \A k \in 1..Len(arg.stmt.whereClause) :
            LET col == arg.stmt.whereClause[k].lexpr.column
            IN  PredicateType(ret.query_info.column_predicate_types, col)
                    = OperatorClass(arg.stmt.whereClause[FirstReference(arg.stmt, col)].op)

\* what the extractor does: the operator of the last reference is recorded
LastPredicateTypeWins ==
    (mode = "synth" /\ ret.called) =>
        \A k \in 1..Len(arg.stmt.whereClause) :
            LET col == arg.stmt.whereClause[k].lexpr.column
            IN  PredicateType(ret.query_info.column_predicate_types, col)
                    = OperatorClass(arg.stmt.whereClause[LastReference(arg.stmt, col)].op)

\* C28: after extraction every column of constant_filters has the predicate
\* type equality, also when the column occurs in a further predicate.
C28_ConstantFiltersAreEqualityColumns ==
    (mode = "synth" /\ ret.called) =>
        \A i \in 1..Len(ret.query_info.constant_filters) :
            PredicateType(ret.query_info.column_predicate_types,
                          ret.query_info.constant_filters[i].key) = "equality"

\* a column compared with literals by equality only is an equality column
ConstantFiltersOfEqualityOnlyColumns ==
    (mode = "synth" /\ ret.called) =>
        \A i \in 1..Len(ret.query_info.constant_filters) :
            LET col == ret.query_info.constant_filters[i].key
            IN  (\A k \in ReferencesOf(arg.stmt, col) : arg.stmt.whereClause[k].op = "=")
                    => PredicateType(ret.query_info.column_predicate_types, col) = "equality"

(***************************************************************************)
(* Range of the selectivity estimate (C29), in millionths.                  *)
(***************************************************************************)

\* the selectivity estimates behind the proposals generated from the scans
SelectivityEstimates ==
    {_calculate_selectivity_from_stats(
         arg.catalog, arg.seq_scans[k].table_name, ret.generated[i].columns,
         arg.seq_scans[k].rows_scanned, arg.seq_scans[k].rows_removed_by_filter) :
        <<i, k>> \in {p \in (1..Len(ret.generated)) \X (1..Len(arg.seq_scans)) :
                         /\ ret.generated[p[1]].table_name = arg.seq_scans[p[2]].table_name
                         /\ ret.generated[p[1]].current_cost = arg.seq_scans[p[2]].total_cost}}

\* C29: the selectivity estimate that enters the improvement step function
\* lies in [0.001, 1.0] before the partial-index factor, whatever the rows
\* produced and removed, with or without catalog statistics.
C29_SelectivityInRange ==
    (mode = "synth" /\ ret.called) =>
        \A selectivity \in SelectivityEstimates :
            1000 <= selectivity /\ selectivity <= 1000000

\* with a pg_stats row for the column the estimate is clamped
SelectivityInRangeWithStatistics ==
    (mode = "synth" /\ ret.called /\ arg.catalog.stats # "none") =>
        \A selectivity \in SelectivityEstimates :
            1000 <= selectivity /\ selectivity <= 1000000

(***************************************************************************)
(* Scans counted as having a recommendation (C30).                          *)
(***************************************************************************)

\* C30: in every batch report seq_scans_with_recommendations is at most
\* total_seq_scans, so the scan elimination percentage is at most 100%.
C30_ScansWithRecommendationsBounded ==
    (mode = "aggregate" /\ report # NoReport) =>
        report.seq_scans_with_recommendations <= report.total_seq_scans

\* what is counted is the proposals of the successful results
CountsProposalsNotScans ==
    (mode = "aggregate" /\ report # NoReport) =>
        report.seq_scans_with_recommendations = Cardinality(Contributions)

====
